---- MODULE Spec2Model ----
(***************************************************************************)
(* crypto_candles: nine exchange adapters behind one contract.             *)
(*                                                                         *)
(* Representation                                                          *)
(*   - a Python str that the code manipulates character by character (a    *)
(*     symbol, a catalog entry, a numeric literal) is a sequence of        *)
(*     one-character strings; tokens the code only compares or looks up    *)
(*     (timeframes, dict keys, exchange names, exception types) are        *)
(*     atomic strings;                                                     *)
(*   - a JSON value is a tagged record (null, num, str, list, dict);       *)
(*   - the evaluation of a Python expression is Ok(v) or Raise(exc, msg),  *)
(*     msg being the segments of str(e);                                   *)
(*   - a datetime is an integer count of microseconds since the epoch, a   *)
(*     float is an integer (all modelled prices are integral).            *)
(***************************************************************************)
EXTENDS Integers, Sequences, FiniteSets, TLC

(***************************************************************************)
(* Bounds                                                                  *)
(***************************************************************************)
\* longest list of candle rows in a response
MaxRows == 2
\* longest list of instruments in a catalog response
MaxEntries == 2
\* longest series of consecutive validate_symbol calls, or to_dict calls
MaxCalls == 2

(***************************************************************************)
(* Python str                                                              *)
(***************************************************************************)
LowerChars ==
    <<"a","b","c","d","e","f","g","h","i","j","k","l","m",
      "n","o","p","q","r","s","t","u","v","w","x","y","z">>

UpperChars ==
    <<"A","B","C","D","E","F","G","H","I","J","K","L","M",
      "N","O","P","Q","R","S","T","U","V","W","X","Y","Z">>

Digits == <<"0","1","2","3","4","5","6","7","8","9">>

\* code-point order of the characters that occur in the model
CharOrder == <<"-", ".">> \o Digits \o UpperChars \o <<"_">> \o LowerChars

IndexOf(seq, c) == CHOOSE i \in 1..Len(seq) : seq[i] = c

Has(seq, c) == \E i \in 1..Len(seq) : seq[i] = c

Ord(c) == IndexOf(CharOrder, c)

UpperChar(c) == IF Has(LowerChars, c) THEN UpperChars[IndexOf(LowerChars, c)] ELSE c

LowerChar(c) == IF Has(UpperChars, c) THEN LowerChars[IndexOf(UpperChars, c)] ELSE c

\* str.upper()
upper(s) == [i \in 1..Len(s) |-> UpperChar(s[i])]

\* str.lower()
lower(s) == [i \in 1..Len(s) |-> LowerChar(s[i])]

\* s.startswith(p)
startswith(s, p) == Len(p) <= Len(s) /\ SubSeq(s, 1, Len(p)) = p

\* s.endswith(p)
endswith(s, p) == Len(p) <= Len(s) /\ SubSeq(s, Len(s) - Len(p) + 1, Len(s)) = p

\* s.replace(old, new, 1): the leftmost occurrence only
ReplaceFirst(s, old, new) ==
    LET at == {i \in 1..Len(s) : startswith(SubSeq(s, i, Len(s)), old)}
    IN IF at = {} THEN s
       ELSE LET i == CHOOSE j \in at : \A k \in at : j <= k
            IN SubSeq(s, 1, i - 1) \o new \o SubSeq(s, i + Len(old), Len(s))

RECURSIVE replace(_, _, _)
\* s.replace(old, new), old non-empty: non-overlapping occurrences, left to right
replace(s, old, new) ==
    IF s = <<>> THEN <<>>
    ELSE IF startswith(s, old)
         THEN new \o replace(SubSeq(s, Len(old) + 1, Len(s)), old, new)
         ELSE <<s[1]>> \o replace(Tail(s), old, new)

RECURSIVE StrLess(_, _)
\* s < t on Python str: lexicographic by code point
StrLess(s, t) ==
    IF t = <<>> THEN FALSE
    ELSE IF s = <<>> THEN TRUE
    ELSE IF s[1] = t[1] THEN StrLess(Tail(s), Tail(t))
    ELSE Ord(s[1]) < Ord(t[1])

RECURSIVE InsertSorted(_, _)
InsertSorted(x, xs) ==
    IF xs = <<>> THEN <<x>>
    ELSE IF StrLess(x, xs[1]) THEN <<x>> \o xs
    ELSE <<xs[1]>> \o InsertSorted(x, Tail(xs))

RECURSIVE SortedDedup(_)
\* sorted(set(xs)): every string once
SortedDedup(xs) ==
    IF xs = <<>> THEN <<>>
    ELSE LET r == SortedDedup(Tail(xs))
         IN IF Has(r, xs[1]) THEN r ELSE InsertSorted(xs[1], r)

RECURSIVE sorted(_)
\* sorted(list of str)
sorted(xs) == IF xs = <<>> THEN <<>> ELSE InsertSorted(xs[1], sorted(Tail(xs)))

(***************************************************************************)
(* JSON values and Python evaluation results                               *)
(***************************************************************************)
JNull == [t |-> "null"]
JNum(n) == [t |-> "num", n |-> n]
JStr(s) == [t |-> "str", s |-> s]
JList(xs) == [t |-> "list", xs |-> xs]
JDict(f) == [t |-> "dict", f |-> f]

\* an Optional[float]: None, or a float
None == <<>>
Some(x) == <<x>>

Ok(v) == [ok |-> TRUE, v |-> v]
Raise(e, m) == [ok |-> FALSE, exc |-> e, msg |-> m]

\* the characters of the dict keys that the code can meet while iterating a dict
KeyChars(k) ==
    CASE k = "code" -> <<"c","o","d","e">>
      [] k = "msg" -> <<"m","s","g">>
      [] k = "data" -> <<"d","a","t","a">>
      [] k = "result" -> <<"r","e","s","u","l","t">>
      [] k = "symbols" -> <<"s","y","m","b","o","l","s">>
      [] k = "symbol" -> <<"s","y","m","b","o","l">>
      [] k = "type" -> <<"t","y","p","e">>
      [] OTHER -> <<k>>

\* the order in which a dict yields its keys (insertion order of the payload)
KeyOrder == <<"code", "msg", "data", "result", "symbols", "list", "symbol", "type",
              "t", "o", "h", "l", "c", "v">>

RECURSIVE KeysFrom(_, _)
KeysFrom(f, i) ==
    IF i > Len(KeyOrder) THEN <<>>
    ELSE (IF KeyOrder[i] \in DOMAIN f THEN <<JStr(KeyChars(KeyOrder[i]))>> ELSE <<>>)
         \o KeysFrom(f, i + 1)

\* x[i], i a non-negative int
PyIndex(x, i) ==
    CASE x.t = "list" ->
           IF i < Len(x.xs) THEN Ok(x.xs[i + 1])
           ELSE Raise("IndexError", <<"list index out of range">>)
      [] x.t = "str" ->
           IF i < Len(x.s) THEN Ok(JStr(<<x.s[i + 1]>>))
           ELSE Raise("IndexError", <<"string index out of range">>)
      [] x.t = "dict" -> Raise("KeyError", <<"int key">>)
      [] OTHER -> Raise("TypeError", <<"object is not subscriptable">>)

\* x[k], k a str key
PyKey(x, k) ==
    CASE x.t = "dict" ->
           IF k \in DOMAIN x.f THEN Ok(x.f[k]) ELSE Raise("KeyError", <<k>>)
      [] x.t = "list" -> Raise("TypeError", <<"list indices must be integers">>)
      [] x.t = "str" -> Raise("TypeError", <<"string indices must be integers">>)
      [] OTHER -> Raise("TypeError", <<"object is not subscriptable">>)

\* iter(x): the items a for loop visits
PyIter(x) ==
    CASE x.t = "list" -> Ok(x.xs)
      [] x.t = "str" -> Ok([i \in 1..Len(x.s) |-> JStr(<<x.s[i]>>)])
      [] x.t = "dict" /\ \A k \in DOMAIN x.f : Has(KeyOrder, k) -> Ok(KeysFrom(x.f, 1))
      [] x.t \in {"null", "num"} -> Raise("TypeError", <<"object is not iterable">>)

\* len(x)
PyLen(x) ==
    CASE x.t = "list" -> Ok(Len(x.xs))
      [] x.t = "str" -> Ok(Len(x.s))
      [] x.t = "dict" -> Ok(Cardinality(DOMAIN x.f))
      [] OTHER -> Raise("TypeError", <<"object has no len()">>)

IsDigits(s) == s # <<>> /\ \A i \in 1..Len(s) : Has(Digits, s[i])

RECURSIVE DigitsValue(_)
DigitsValue(s) ==
    IF s = <<>> THEN 0
    ELSE 10 * DigitsValue(SubSeq(s, 1, Len(s) - 1)) + (IndexOf(Digits, s[Len(s)]) - 1)

\* a decimal literal whose fraction is zero ("35000.0"); the modelled floats are integral
IsZeroDecimal(s) ==
    \E i \in 2..(Len(s) - 1) :
        /\ s[i] = "."
        /\ IsDigits(SubSeq(s, 1, i - 1))
        /\ \A j \in (i + 1)..Len(s) : s[j] = "0"

IntPart(s) == SubSeq(s, 1, IndexOf(s, ".") - 1)

\* int(x)
PyInt(x) ==
    CASE x.t = "num" -> Ok(x.n)
      [] x.t = "str" ->
           IF IsDigits(x.s) THEN Ok(DigitsValue(x.s))
           ELSE Raise("ValueError", <<"invalid literal for int()">>)
      [] OTHER -> Raise("TypeError", <<"int() argument must be a string or a number">>)

\* float(x)
PyFloat(x) ==
    CASE x.t = "num" -> Ok(x.n)
      [] x.t = "str" ->
           IF IsDigits(x.s) THEN Ok(DigitsValue(x.s))
           ELSE IF IsZeroDecimal(x.s) THEN Ok(DigitsValue(IntPart(x.s)))
           ELSE Raise("ValueError", <<"could not convert string to float">>)
      [] OTHER -> Raise("TypeError", <<"float() argument must be a string or a number">>)

\* x / 1000 on a JSON value
PyDiv1000(x) ==
    IF x.t = "num" THEN Ok(x.n)
    ELSE Raise("TypeError", <<"unsupported operand type(s) for /">>)

(***************************************************************************)
(* The nine adapters                                                       *)
(***************************************************************************)
Adapters ==
    {"BinanceExchange", "BitgetExchange", "BybitExchange", "CryptoComExchange",
     "FoxbitExchange", "MercadoBitcoinExchange", "MEXCExchange", "NovadaxExchange",
     "OKXExchange"}

\* the exception class each adapter module defines
APIError(a) ==
    CASE a = "BinanceExchange" -> "BinanceAPIError"
      [] a = "BitgetExchange" -> "BitgetAPIError"
      [] a = "BybitExchange" -> "BybitAPIError"
      [] a = "CryptoComExchange" -> "CryptoComAPIError"
      [] a = "FoxbitExchange" -> "FoxbitAPIError"
      [] a = "MercadoBitcoinExchange" -> "MercadoBitcoinAPIError"
      [] a = "MEXCExchange" -> "MEXCAPIError"
      [] a = "NovadaxExchange" -> "NovadaxAPIError"
      [] a = "OKXExchange" -> "OKXAPIError"

\* self._supported_timeframes: <<canonical key, native token>> in declaration order
_supported_timeframes(a) ==
    CASE a = "BinanceExchange" ->
           << <<"1m","1m">>, <<"3m","3m">>, <<"5m","5m">>, <<"15m","15m">>,
              <<"30m","30m">>, <<"1h","1h">>, <<"2h","2h">>, <<"4h","4h">>,
              <<"6h","6h">>, <<"8h","8h">>, <<"12h","12h">>, <<"1d","1d">>,
              <<"3d","3d">>, <<"1w","1w">>, <<"1M","1M">> >>
      [] a = "BitgetExchange" ->
           << <<"1m","1m">>, <<"5m","5m">>, <<"15m","15m">>, <<"30m","30m">>,
              <<"1h","1h">>, <<"4h","4h">>, <<"1d","1day">>, <<"1w","1week">> >>
      [] a = "BybitExchange" ->
           << <<"1m","1">>, <<"3m","3">>, <<"5m","5">>, <<"15m","15">>,
              <<"30m","30">>, <<"1h","60">>, <<"2h","120">>, <<"4h","240">>,
              <<"6h","360">>, <<"12h","720">>, <<"1d","D">>, <<"1w","W">>,
              <<"1M","M">> >>
      [] a = "CryptoComExchange" ->
           << <<"1m","1m">>, <<"5m","5m">>, <<"15m","15m">>, <<"30m","30m">>,
              <<"1h","1h">>, <<"4h","4h">>, <<"1d","1d">>, <<"1w","1w">>,
              <<"1M","1M">> >>
      [] a = "FoxbitExchange" ->
           << <<"1m","1m">>, <<"5m","5m">>, <<"15m","15m">>, <<"30m","30m">>,
              <<"1h","1h">>, <<"4h","4h">>, <<"1d","1d">>, <<"1w","1w">> >>
      [] a = "MercadoBitcoinExchange" ->
           << <<"1m","1m">>, <<"5m","5m">>, <<"15m","15m">>, <<"30m","30m">>,
              <<"1h","1h">>, <<"4h","4h">>, <<"1d","1d">>, <<"1w","1w">> >>
      [] a = "MEXCExchange" ->
           << <<"1m","1m">>, <<"5m","5m">>, <<"15m","15m">>, <<"30m","30m">>,
              <<"1h","60m">>, <<"4h","4h">>, <<"1d","1d">>, <<"1w","1W">>,
              <<"1M","1M">> >>
      [] a = "NovadaxExchange" ->
           << <<"1m","ONE_MIN">>, <<"5m","FIVE_MIN">>, <<"15m","FIFTEEN_MIN">>,
              <<"30m","HALF_HOU">>, <<"1h","ONE_HOU">>, <<"1d","ONE_DAY">>,
              <<"1w","ONE_WEE">> >>
      [] a = "OKXExchange" ->
           << <<"1m","1m">>, <<"5m","5m">>, <<"15m","15m">>, <<"30m","30m">>,
              <<"1h","1H">>, <<"4h","4H">>, <<"1d","1D">>, <<"1w","1W">> >>

\* the native tokens of the table, in declaration order
values(table) == [i \in 1..Len(table) |-> table[i][2]]

\* list(table.keys()): a new list of the keys, in declaration order
keys(table) == [i \in 1..Len(table) |-> table[i][1]]

\* list(self._supported_timeframes.keys())
get_supported_timeframes(a) == keys(_supported_timeframes(a))

\* timeframe in self._supported_timeframes
InTable(a, timeframe) ==
    \E i \in 1..Len(_supported_timeframes(a)) : _supported_timeframes(a)[i][1] = timeframe

\* self._supported_timeframes[timeframe]
TableLookup(a, timeframe) ==
    _supported_timeframes(a)[CHOOSE i \in 1..Len(_supported_timeframes(a)) :
                                 _supported_timeframes(a)[i][1] = timeframe][2]

\* the adapters whose _convert_timeframe returns its argument
Passthrough == {"BinanceExchange", "FoxbitExchange", "MercadoBitcoinExchange"}

\* the adapters whose _convert_timeframe looks the key up and raises when it is absent
Eager == Adapters \ Passthrough

\* _convert_timeframe, every adapter ignoring the table
ConvertTimeframeUnchecked(a, timeframe) == Ok(timeframe)

\* _convert_timeframe, every adapter looking the key up
ConvertTimeframeChecked(a, timeframe) ==
    IF InTable(a, timeframe) THEN Ok(TableLookup(a, timeframe))
    ELSE Raise("ValueError", <<"Unsupported timeframe", timeframe>>)

_convert_timeframe(a, timeframe) ==
    IF a \in Passthrough THEN Ok(timeframe)
    ELSE IF ~InTable(a, timeframe)
         THEN Raise("ValueError", <<"Unsupported timeframe", timeframe>>)
         ELSE Ok(TableLookup(a, timeframe))

\* _convert_symbol, every adapter compacting the pair as Binance does
ConvertSymbolCompact(a, symbol) == upper(replace(symbol, <<"-">>, <<>>))

\* self._convert_symbol(symbol)
_convert_symbol(a, symbol) ==
    CASE a \in {"BinanceExchange", "BitgetExchange", "BybitExchange", "MEXCExchange"} -> upper(replace(symbol, <<"-">>, <<>>))
      [] a = "FoxbitExchange" -> lower(replace(symbol, <<"-">>, <<>>))
      [] a \in {"CryptoComExchange", "NovadaxExchange"} -> replace(symbol, <<"-">>, <<"_">>)
      [] a \in {"OKXExchange", "MercadoBitcoinExchange"} -> symbol

\* the exchange literal each adapter writes into its candles
ExchangeLiteral(a) ==
    CASE a = "BinanceExchange" -> "binance"
      [] a = "BitgetExchange" -> "bitget"
      [] a = "BybitExchange" -> "bybit"
      [] a = "CryptoComExchange" -> "crypto_com"
      [] a = "FoxbitExchange" -> "foxbit"
      [] a = "MercadoBitcoinExchange" -> "mercado_bitcoin"
      [] a = "MEXCExchange" -> "mexc"
      [] a = "NovadaxExchange" -> "novadax"
      [] a = "OKXExchange" -> "okx"

(***************************************************************************)
(* Requests                                                                *)
(***************************************************************************)
\* the limit parameter Foxbit sends
FoxbitLimit == 500

MicrosPerMilli == 1000
MicrosPerSecond == 1000000

\* int(d.timestamp() * 1000)
EpochMillis(d) == d \div MicrosPerMilli

\* int(d.timestamp() * 1000) where the code has int(d.timestamp())
EpochSecondsAsMillis(d) == d \div MicrosPerMilli

\* int(d.timestamp())
EpochSeconds(d) == d \div MicrosPerSecond

\* the endpoint and the query parameters of the candle request of get_candles
CandleRequest(a, native_symbol, native_timeframe, start_date, end_date) ==
    CASE a = "BinanceExchange" ->
           [method |-> "GET", base |-> "https://api.binance.com/api/v3",
            endpoint |-> "klines", path_symbol |-> <<>>,
            params |-> [symbol |-> native_symbol, interval |-> native_timeframe,
                        startTime |-> EpochMillis(start_date),
                        endTime |-> EpochMillis(end_date)]]
      [] a = "BitgetExchange" ->
           [method |-> "GET", base |-> "https://api.bitget.com/api/v2",
            endpoint |-> "spot/market/candles", path_symbol |-> <<>>,
            params |-> [symbol |-> native_symbol, granularity |-> native_timeframe,
                        startTime |-> EpochMillis(start_date),
                        endTime |-> EpochMillis(end_date)]]
      [] a = "BybitExchange" ->
           [method |-> "GET", base |-> "https://api.bybit.com/v5",
            endpoint |-> "market/kline", path_symbol |-> <<>>,
            params |-> [category |-> "spot", symbol |-> native_symbol,
                        interval |-> native_timeframe,
                        start |-> EpochMillis(start_date),
                        end |-> EpochMillis(end_date)]]
      [] a = "CryptoComExchange" ->
           [method |-> "GET", base |-> "https://api.crypto.com/v2",
            endpoint |-> "public/get-candlestick", path_symbol |-> <<>>,
            params |-> [instrument_name |-> native_symbol, timeframe |-> native_timeframe,
                        start_ts |-> EpochMillis(start_date),
                        end_ts |-> EpochMillis(end_date)]]
      [] a = "FoxbitExchange" ->
           [method |-> "GET", base |-> "https://api.foxbit.com.br/rest/v3",
            endpoint |-> "markets/{symbol}/candlesticks", path_symbol |-> native_symbol,
            params |-> [interval |-> native_timeframe,
                        start_time |-> EpochMillis(start_date),
                        end_time |-> EpochMillis(end_date),
                        limit |-> FoxbitLimit]]
      [] a = "MercadoBitcoinExchange" ->
           [method |-> "GET", base |-> "https://api.mercadobitcoin.net/api/v4",
            endpoint |-> "candles", path_symbol |-> <<>>,
            params |-> [from |-> EpochSeconds(start_date), to |-> EpochSeconds(end_date),
                        resolution |-> native_timeframe, symbol |-> native_symbol]]
      [] a = "MEXCExchange" ->
           [method |-> "GET", base |-> "https://api.mexc.com/api/v3",
            endpoint |-> "klines", path_symbol |-> <<>>,
            params |-> [symbol |-> native_symbol, interval |-> native_timeframe,
                        startTime |-> EpochMillis(start_date),
                        endTime |-> EpochMillis(end_date)]]
      [] a = "NovadaxExchange" ->
           [method |-> "GET", base |-> "https://api.novadax.com/v1",
            endpoint |-> "market/kline/history", path_symbol |-> <<>>,
            params |-> [symbol |-> native_symbol, from |-> EpochSeconds(start_date),
                        to |-> EpochSeconds(end_date), unit |-> native_timeframe]]
      [] a = "OKXExchange" ->
           [method |-> "GET", base |-> "https://www.okx.com/api/v5",
            endpoint |-> "market/history-candles", path_symbol |-> <<>>,
            params |-> [instId |-> native_symbol, bar |-> native_timeframe,
                        after |-> EpochMillis(end_date),
                        before |-> EpochMillis(start_date)]]

\* the endpoint and the query parameters of the catalog request of get_supported_pairs
CatalogRequest(a) ==
    CASE a = "BinanceExchange" ->
           [method |-> "GET", base |-> "https://api.binance.com/api/v3",
            endpoint |-> "exchangeInfo", path_symbol |-> <<>>, params |-> <<>>]
      [] a = "BitgetExchange" ->
           [method |-> "GET", base |-> "https://api.bitget.com/api/v2",
            endpoint |-> "spot/public/symbols", path_symbol |-> <<>>, params |-> <<>>]
      [] a = "BybitExchange" ->
           [method |-> "GET", base |-> "https://api.bybit.com/v5",
            endpoint |-> "market/instruments-info", path_symbol |-> <<>>,
            params |-> [category |-> "spot"]]
      [] a = "CryptoComExchange" ->
           [method |-> "GET", base |-> "https://api.crypto.com/v2",
            endpoint |-> "public/get-ticker", path_symbol |-> <<>>, params |-> <<>>]
      [] a = "FoxbitExchange" ->
           [method |-> "GET", base |-> "https://api.foxbit.com.br/rest/v3",
            endpoint |-> "markets", path_symbol |-> <<>>, params |-> <<>>]
      [] a = "MercadoBitcoinExchange" ->
           [method |-> "GET", base |-> "https://api.mercadobitcoin.net/api/v4",
            endpoint |-> "symbols", path_symbol |-> <<>>, params |-> <<>>]
      [] a = "MEXCExchange" ->
           [method |-> "GET", base |-> "https://api.mexc.com/api/v3",
            endpoint |-> "exchangeInfo", path_symbol |-> <<>>, params |-> <<>>]
      [] a = "NovadaxExchange" ->
           [method |-> "GET", base |-> "https://api.novadax.com/v1",
            endpoint |-> "common/symbols", path_symbol |-> <<>>, params |-> <<>>]
      [] a = "OKXExchange" ->
           [method |-> "GET", base |-> "https://www.okx.com/api/v5",
            endpoint |-> "public/instruments", path_symbol |-> <<>>,
            params |-> [instType |-> "SPOT"]]

\* the exception classes derived from requests.exceptions.RequestException
RequestExceptions == {"ConnectionError", "Timeout", "HTTPError"}

\* _make_request issuing the request a second time after a failure
MakeRequestRetry(a, req, resp) ==
    IF resp.kind = "body" THEN [requests |-> <<req>>, out |-> Ok(resp.body)]
    ELSE [requests |-> <<req, req>>,
          out |-> Raise(APIError(a), <<"API request failed">> \o resp.msg)]

\* _make_request: one requests.request call, raise_for_status, json(); only a
\* RequestException is turned into the adapter's error
_make_request(a, req, resp) ==
    [requests |-> <<req>>,
     out |-> CASE resp.kind = "raise" ->
                    IF resp.exc \in RequestExceptions
                    THEN Raise(APIError(a), <<"API request failed">> \o resp.msg)
                    ELSE Raise(resp.exc, resp.msg)
               [] resp.kind = "status" ->
                    Raise(APIError(a), <<"API request failed">> \o resp.msg)
               [] resp.kind = "body" -> Ok(resp.body)]

(***************************************************************************)
(* get_candles: parsing the payload                                        *)
(***************************************************************************)
\* datetime.fromtimestamp(ms / 1000)
FromTimestampMillis(ms) == ms * MicrosPerMilli

\* datetime.fromtimestamp(s)
FromTimestampSeconds(sec) == sec * MicrosPerSecond

\* float(candle_data[i + 1]): every cell read one position to the right
FloatAtNext(cd, i) == LET x == PyIndex(cd, i + 1) IN IF x.ok THEN PyFloat(x.v) ELSE x

\* float(candle_data[i])
FloatAt(cd, i) == LET x == PyIndex(cd, i) IN IF x.ok THEN PyFloat(x.v) ELSE x

\* float(candle_data[k])
FloatKey(cd, k) == LET x == PyKey(cd, k) IN IF x.ok THEN PyFloat(x.v) ELSE x

\* datetime.fromtimestamp(candle_data[i] / 1000)
TimeRawAt(cd, i) ==
    LET x == PyIndex(cd, i)
        q == PyDiv1000(x.v)
    IN IF ~x.ok THEN x ELSE IF ~q.ok THEN q ELSE Ok(FromTimestampMillis(q.v))

\* datetime.fromtimestamp(int(candle_data[i]) / 1000)
TimeIntAt(cd, i) ==
    LET x == PyIndex(cd, i)
        n == PyInt(x.v)
    IN IF ~x.ok THEN x ELSE IF ~n.ok THEN n ELSE Ok(FromTimestampMillis(n.v))

\* datetime.fromtimestamp(candle_data[k] / 1000)
TimeRawKey(cd, k) ==
    LET x == PyKey(cd, k)
        q == PyDiv1000(x.v)
    IN IF ~x.ok THEN x ELSE IF ~q.ok THEN q ELSE Ok(FromTimestampMillis(q.v))

\* datetime.fromtimestamp(int(candle_data[k]))
TimeSecondsKey(cd, k) ==
    LET x == PyKey(cd, k)
        n == PyInt(x.v)
    IN IF ~x.ok THEN x ELSE IF ~n.ok THEN n ELSE Ok(FromTimestampSeconds(n.v))

\* datetime.fromtimestamp(int(timestamps[i]))
TimeSecondsAt(col, i) ==
    LET x == PyIndex(col, i)
        n == PyInt(x.v)
    IN IF ~x.ok THEN x ELSE IF ~n.ok THEN n ELSE Ok(FromTimestampSeconds(n.v))

\* quote_volume taken as the reported volume
VolumeOnly(cd) == LET x == PyKey(cd, "v") IN IF x.ok THEN PyFloat(x.v) ELSE x

\* float(candle_data["v"]) * float(candle_data["c"])
ProductVC(cd) ==
    LET v == FloatKey(cd, "v")
        c == FloatKey(cd, "c")
    IN IF ~v.ok THEN v ELSE IF ~c.ok THEN c ELSE Ok(v.v * c.v)

\* response.get(k, [])
GetOrEmpty(response, k) ==
    IF k \in DOMAIN response.f THEN response.f[k] ELSE JList(<<>>)

\* the keyword arguments timestamp, open, high, low, close, volume, quote_volume
\* of the Candle(...) call, in evaluation order; item is the loop variable
\* (candle_data, or the index i and the columns for Mercado Bitcoin)
RowFields(a, item) ==
    CASE a = "BinanceExchange" ->
           << TimeRawAt(item, 0), FloatAt(item, 1), FloatAt(item, 2), FloatAt(item, 3),
              FloatAt(item, 4), FloatAt(item, 5), FloatAt(item, 7) >>
      [] a \in {"BitgetExchange", "BybitExchange", "OKXExchange"} ->
           << TimeIntAt(item, 0), FloatAt(item, 1), FloatAt(item, 2), FloatAt(item, 3),
              FloatAt(item, 4), FloatAt(item, 5), FloatAt(item, 6) >>
      [] a = "MEXCExchange" ->
           << TimeIntAt(item, 0), FloatAt(item, 1), FloatAt(item, 2), FloatAt(item, 3),
              FloatAt(item, 4), FloatAt(item, 5), FloatAt(item, 7) >>
      [] a = "FoxbitExchange" ->
           << TimeIntAt(item, 0), FloatAt(item, 1), FloatAt(item, 2), FloatAt(item, 3),
              FloatAt(item, 4), FloatAt(item, 6), FloatAt(item, 7) >>
      [] a = "CryptoComExchange" ->
           << TimeRawKey(item, "t"), FloatKey(item, "o"), FloatKey(item, "h"),
              FloatKey(item, "l"), FloatKey(item, "c"), FloatKey(item, "v"),
              ProductVC(item) >>
      [] a = "NovadaxExchange" ->
           << TimeSecondsKey(item, "score"), FloatKey(item, "openPrice"),
              FloatKey(item, "highPrice"), FloatKey(item, "lowPrice"),
              FloatKey(item, "closePrice"), FloatKey(item, "amount"),
              FloatKey(item, "vol") >>
      [] a = "MercadoBitcoinExchange" ->
           << TimeSecondsAt(GetOrEmpty(item.response, "t"), item.i),
              FloatAt(GetOrEmpty(item.response, "o"), item.i),
              FloatAt(GetOrEmpty(item.response, "h"), item.i),
              FloatAt(GetOrEmpty(item.response, "l"), item.i),
              FloatAt(GetOrEmpty(item.response, "c"), item.i),
              FloatAt(GetOrEmpty(item.response, "v"), item.i),
              FloatAt(GetOrEmpty(item.response, "v"), item.i) >>

\* the first keyword argument whose evaluation raises
FirstRaise(fields) ==
    fields[CHOOSE i \in 1..Len(fields) :
               ~fields[i].ok /\ \A j \in 1..(i - 1) : fields[j].ok]

\* Candle(...) filled with the exchange-native symbol
CandleNativeSymbol(fields, symbol, a, timeframe) ==
    [timestamp |-> fields[1].v, open |-> fields[2].v, high |-> fields[3].v,
     low |-> fields[4].v, close |-> fields[5].v, volume |-> fields[6].v,
     symbol |-> _convert_symbol(a, symbol), exchange |-> ExchangeLiteral(a),
     timeframe |-> timeframe, quote_volume |-> Some(fields[7].v)]

\* the Candle(...) call of the parse loop
Candle(fields, symbol, a, timeframe) ==
    [timestamp |-> fields[1].v, open |-> fields[2].v, high |-> fields[3].v,
     low |-> fields[4].v, close |-> fields[5].v, volume |-> fields[6].v,
     symbol |-> symbol, exchange |-> ExchangeLiteral(a),
     timeframe |-> timeframe, quote_volume |-> Some(fields[7].v)]

\* datetime.isoformat(): the date and time to the second, then the microseconds
\* when they are not zero
isoformat(d) ==
    [seconds |-> d \div MicrosPerSecond,
     fraction |-> IF d % MicrosPerSecond = 0 THEN <<>> ELSE <<d % MicrosPerSecond>>]

\* to_dict leaving quote_volume out of the mapping when it is unset
ToDictOmittingUnset(c) ==
    LET d == [timestamp |-> isoformat(c.timestamp), open |-> c.open, high |-> c.high,
              low |-> c.low, close |-> c.close, volume |-> c.volume,
              symbol |-> c.symbol, exchange |-> c.exchange, timeframe |-> c.timeframe]
    IN IF c.quote_volume = None THEN d
       ELSE [k \in DOMAIN d \cup {"quote_volume"} |->
                IF k = "quote_volume" THEN c.quote_volume ELSE d[k]]

\* Candle.to_dict
to_dict(c) ==
    [timestamp |-> isoformat(c.timestamp), open |-> c.open, high |-> c.high,
     low |-> c.low, close |-> c.close, volume |-> c.volume, symbol |-> c.symbol,
     exchange |-> c.exchange, timeframe |-> c.timeframe,
     quote_volume |-> c.quote_volume]

\* the container the parse loop iterates
\*   Binance, Foxbit, MEXC: response; Bitget, Novadax, OKX: response["data"];
\*   Bybit: response["result"]["list"]; Crypto.com: response["result"]["data"];
\*   Mercado Bitcoin: range(len(response.get("t", [])))
LoopItems(a, response) ==
    CASE a \in {"BinanceExchange", "FoxbitExchange", "MEXCExchange"} -> PyIter(response)
      [] a \in {"BitgetExchange", "NovadaxExchange", "OKXExchange"} ->
           LET d == PyKey(response, "data") IN IF d.ok THEN PyIter(d.v) ELSE d
      [] a = "BybitExchange" ->
           LET r == PyKey(response, "result")
               l == PyKey(r.v, "list")
           IN IF ~r.ok THEN r ELSE IF ~l.ok THEN l ELSE PyIter(l.v)
      [] a = "CryptoComExchange" ->
           LET r == PyKey(response, "result")
               d == PyKey(r.v, "data")
           IN IF ~r.ok THEN r ELSE IF ~d.ok THEN d ELSE PyIter(d.v)
      [] a = "MercadoBitcoinExchange" ->
           IF response.t # "dict"
           THEN Raise("AttributeError", <<"object has no attribute 'get'">>)
           ELSE LET n == PyLen(GetOrEmpty(response, "t"))
                IN IF ~n.ok THEN n
                   ELSE Ok([i \in 1..n.v |-> [i |-> i - 1, response |-> response]])

RECURSIVE ParseLoopPartial(_, _, _, _)
\* the for loop handing back the candles built before the first raise
ParseLoopPartial(a, items, symbol, timeframe) ==
    IF items = <<>> THEN Ok(<<>>)
    ELSE LET fields == RowFields(a, items[1])
         IN IF \E i \in 1..Len(fields) : ~fields[i].ok THEN Ok(<<>>)
            ELSE Ok(<<Candle(fields, symbol, a, timeframe)>>
                    \o ParseLoopPartial(a, Tail(items), symbol, timeframe).v)

RECURSIVE ParseLoop(_, _, _, _)
\* the for loop: candles.append(Candle(...)) per item, the first raise ends it
ParseLoop(a, items, symbol, timeframe) ==
    IF items = <<>> THEN Ok(<<>>)
    ELSE LET fields == RowFields(a, items[1])
         IN IF \E i \in 1..Len(fields) : ~fields[i].ok THEN FirstRaise(fields)
            ELSE LET rest == ParseLoop(a, Tail(items), symbol, timeframe)
                 IN IF ~rest.ok THEN rest
                    ELSE Ok(<<Candle(fields, symbol, a, timeframe)>> \o rest.v)

RECURSIVE DropRepeats(_)
\* a list of candles without a candle equal to an earlier one
DropRepeats(cs) ==
    IF cs = <<>> THEN <<>>
    ELSE LET r == DropRepeats(SubSeq(cs, 1, Len(cs) - 1))
         IN IF \E i \in 1..Len(r) : r[i] = cs[Len(cs)] THEN r ELSE Append(r, cs[Len(cs)])

\* the parse block dropping repeated candles
ParseCandlesDedup(a, response, symbol, timeframe) ==
    LET items == LoopItems(a, response)
        parsed == ParseLoop(a, items.v, symbol, timeframe)
    IN IF ~items.ok THEN items
       ELSE IF ~parsed.ok THEN parsed
       ELSE Ok(DropRepeats(parsed.v))

\* the "# Parse response" block of get_candles
ParseCandles(a, response, symbol, timeframe) ==
    LET items == LoopItems(a, response)
    IN IF ~items.ok THEN items ELSE ParseLoop(a, items.v, symbol, timeframe)

\* the message prefix of the except clause of get_candles
CandlesPrefix(a) ==
    CASE a = "BinanceExchange" -> "Error getting candles from Binance"
      [] a = "BitgetExchange" -> "Error getting candles from Bitget"
      [] a = "BybitExchange" -> "Error getting candles from Bybit"
      [] a = "CryptoComExchange" -> "Failed to fetch candles"
      [] a = "FoxbitExchange" -> "Error getting candles from Foxbit"
      [] a = "MercadoBitcoinExchange" -> "Error getting candles from Mercado Bitcoin"
      [] a = "MEXCExchange" -> "Error getting candles from MEXC"
      [] a = "NovadaxExchange" -> "Error getting candles from Novadax"
      [] a = "OKXExchange" -> "Error getting candles from OKX"

\* get_candles whose handler catches the adapter's own error only
CandlesExceptOwnError(a, r) ==
    IF r.ok \/ r.exc # APIError(a) THEN r
    ELSE Raise(APIError(a), <<CandlesPrefix(a)>> \o r.msg)

\* except Exception as e: raise <adapter>APIError(f"<prefix>: {str(e)}")
CandlesExcept(a, r) ==
    IF r.ok THEN r ELSE Raise(APIError(a), <<CandlesPrefix(a)>> \o r.msg)

\* get_candles looking the symbol up in the catalog before anything else
GetCandlesValidating(a, symbol, timeframe, start_date, end_date, resp) ==
    LET sent == _make_request(a, CatalogRequest(a), resp)
    IN [requests |-> sent.requests,
        out |-> CandlesExcept(a, IF sent.out.ok
                                 THEN Raise("ValueError", <<"Unsupported symbol", symbol>>)
                                 ELSE sent.out)]

\* get_candles: the requests it issues and what it returns or raises, resp being
\* what the transport answers to the candle request
get_candles(a, symbol, timeframe, start_date, end_date, resp) ==
    LET tf == _convert_timeframe(a, timeframe)
        req == CandleRequest(a, _convert_symbol(a, symbol), tf.v, start_date, end_date)
        sent == _make_request(a, req, resp)
    IN IF ~tf.ok THEN [requests |-> <<>>, out |-> CandlesExcept(a, tf)]
       ELSE [requests |-> sent.requests,
             out |-> CandlesExcept(a,
                        IF ~sent.out.ok THEN sent.out
                        ELSE ParseCandles(a, sent.out.v, symbol, timeframe))]

(***************************************************************************)
(* get_supported_pairs                                                     *)
(***************************************************************************)
BRL == <<"B","R","L">>

\* f"{x}" of a JSON string
Format(x) == CASE x.t = "str" -> x.s

\* x == "literal" on a JSON value
EqualsStr(x, lit) == x.t = "str" /\ x.s = lit

\* x.endswith(suffix): str has the method, other JSON values do not
EndsWith(x, suffix) ==
    IF x.t = "str" THEN Ok(endswith(x.s, suffix))
    ELSE Raise("AttributeError", <<"object has no attribute 'endswith'">>)

\* x.replace(old, new)
Replace(x, old, new) ==
    IF x.t = "str" THEN Ok(replace(x.s, old, new))
    ELSE Raise("AttributeError", <<"object has no attribute 'replace'">>)

Keep(pair) == Ok([keep |-> TRUE, pair |-> pair])
Skip == Ok([keep |-> FALSE, pair |-> <<>>])

\* f"{e[base]}-{e[quote]}" kept when e[quote] == "BRL"
QuoteFilter(e, base, quote) ==
    LET q == PyKey(e, quote)
        b == PyKey(e, base)
    IN IF ~q.ok THEN q
       ELSE IF ~EqualsStr(q.v, BRL) THEN Skip
       ELSE IF ~b.ok THEN b
       ELSE Keep(Format(b.v) \o <<"-">> \o Format(q.v))

\* what one catalog entry contributes: kept with its pair, skipped, or a raise
EntryPair(a, e) ==
    CASE a = "BinanceExchange" ->
           LET sym == PyKey(e, "symbol")
               ends == EndsWith(sym.v, BRL)
               status == PyKey(e, "status")
           IN IF ~sym.ok THEN sym
              ELSE IF ~ends.ok THEN ends
              ELSE IF ~ends.v THEN Skip
              ELSE IF ~status.ok THEN status
              ELSE IF ~EqualsStr(status.v, <<"T","R","A","D","I","N","G">>) THEN Skip
              ELSE Keep(replace(sym.v.s, BRL, <<"-">> \o BRL))
      [] a \in {"BitgetExchange", "BybitExchange"} -> QuoteFilter(e, "baseCoin", "quoteCoin")
      [] a = "OKXExchange" -> QuoteFilter(e, "baseCcy", "quoteCcy")
      [] a = "MEXCExchange" ->
           LET status == PyKey(e, "status")
           IN IF ~status.ok THEN status
              ELSE IF ~EqualsStr(status.v, <<"1">>) THEN Skip
              ELSE QuoteFilter(e, "baseAsset", "quoteAsset")
      [] a = "CryptoComExchange" ->
           LET i == PyKey(e, "i")
               ends == EndsWith(i.v, <<"_">> \o BRL)
           IN IF ~i.ok THEN i
              ELSE IF ~ends.ok THEN ends
              ELSE IF ~ends.v THEN Skip
              ELSE Keep(replace(i.v.s, <<"_">> \o BRL, <<>>) \o <<"-">> \o BRL)
      [] a = "FoxbitExchange" ->
           LET sym == PyKey(e, "symbol")
           IN IF ~sym.ok THEN sym ELSE Keep(Format(sym.v))
      [] a = "NovadaxExchange" ->
           LET sym == PyKey(e, "symbol")
               r == Replace(sym.v, <<"_">>, <<"-">>)
           IN IF ~sym.ok THEN sym ELSE IF ~r.ok THEN r ELSE Keep(r.v)

RECURSIVE PairsLoop(_, _)
\* the loop (or comprehension) over the catalog entries, before sorted()
PairsLoop(a, entries) ==
    IF entries = <<>> THEN Ok(<<>>)
    ELSE LET p == EntryPair(a, entries[1])
             rest == PairsLoop(a, Tail(entries))
         IN IF ~p.ok THEN p
            ELSE IF ~rest.ok THEN rest
            ELSE Ok((IF p.v.keep THEN <<p.v.pair>> ELSE <<>>) \o rest.v)

\* the list of entries each adapter reads out of the catalog response
CatalogEntries(a, response) ==
    CASE a \in {"BinanceExchange", "MEXCExchange"} ->
           LET x == PyKey(response, "symbols") IN IF x.ok THEN PyIter(x.v) ELSE x
      [] a \in {"BitgetExchange", "FoxbitExchange", "NovadaxExchange", "OKXExchange"} ->
           LET x == PyKey(response, "data") IN IF x.ok THEN PyIter(x.v) ELSE x
      [] a = "BybitExchange" ->
           LET r == PyKey(response, "result")
               l == PyKey(r.v, "list")
           IN IF ~r.ok THEN r ELSE IF ~l.ok THEN l ELSE PyIter(l.v)
      [] a = "CryptoComExchange" ->
           LET r == PyKey(response, "result")
               d == PyKey(r.v, "data")
           IN IF ~r.ok THEN r ELSE IF ~d.ok THEN d ELSE PyIter(d.v)

\* a list of JSON objects, the records pandas turns into rows
IsRecords(response) ==
    response.t = "list" /\ \A i \in 1..Len(response.xs) : response.xs[i].t = "dict"

RECURSIVE CryptoSymbols(_)
\* response_df[response_df['type'] == 'CRYPTO']['symbol'].tolist() over records
CryptoSymbols(records) ==
    IF records = <<>> THEN <<>>
    ELSE (IF "type" \in DOMAIN records[1].f
             /\ EqualsStr(records[1].f["type"], <<"C","R","Y","P","T","O">>)
          THEN <<Format(records[1].f["symbol"])>> ELSE <<>>)
         \o CryptoSymbols(Tail(records))

\* Mercado Bitcoin: DataFrame.from_records(response), the 'type' filter, the
\* 'symbol' column; a column no record has is a KeyError, and a payload that is
\* not a list of records is whatever pandas raises for it
PandasPairs(response) ==
    IF ~IsRecords(response) THEN Raise("Exception", <<"pandas">>)
    ELSE IF \A i \in 1..Len(response.xs) : "type" \notin DOMAIN response.xs[i].f
         THEN Raise("KeyError", <<"type">>)
    ELSE IF \A i \in 1..Len(response.xs) : "symbol" \notin DOMAIN response.xs[i].f
         THEN Raise("KeyError", <<"symbol">>)
    ELSE Ok(CryptoSymbols(response.xs))

\* the body of the try block of get_supported_pairs after the request
ParsePairs(a, response) ==
    IF a = "MercadoBitcoinExchange"
    THEN LET p == PandasPairs(response) IN IF p.ok THEN Ok(sorted(p.v)) ELSE p
    ELSE LET entries == CatalogEntries(a, response)
             pairs == PairsLoop(a, entries.v)
         IN IF ~entries.ok THEN entries
            ELSE IF ~pairs.ok THEN pairs
            ELSE Ok(sorted(pairs.v))

PairsPrefix == "Failed to fetch supported pairs"

\* the except clause of get_supported_pairs: Binance catches BinanceAPIError only,
\* the other eight catch Exception
PairsExcept(a, r) ==
    IF r.ok THEN r
    ELSE IF a = "BinanceExchange" /\ r.exc # APIError(a) THEN r
    ELSE Raise(APIError(a), <<PairsPrefix>> \o r.msg)

\* get_supported_pairs: the requests it issues and what it returns or raises
get_supported_pairs(a, resp) ==
    LET sent == _make_request(a, CatalogRequest(a), resp)
    IN [requests |-> sent.requests,
        out |-> PairsExcept(a, IF ~sent.out.ok THEN sent.out
                               ELSE ParsePairs(a, sent.out.v))]

(***************************************************************************)
(* BaseExchange: the two validators every adapter inherits                 *)
(***************************************************************************)
\* validate_timeframe looking the string up among the native tokens
ValidateTimeframeNative(a, timeframe) ==
    \E i \in 1..Len(_supported_timeframes(a)) : _supported_timeframes(a)[i][2] = timeframe

\* timeframe in self.get_supported_timeframes()
validate_timeframe(a, timeframe) == Has(get_supported_timeframes(a), timeframe)

\* symbol in pairs, pairs being what the get_supported_pairs call of this very
\* validate_symbol call gave: what it raised is not caught
SymbolIn(symbol, pairs) ==
    [requests |-> pairs.requests,
     out |-> IF pairs.out.ok THEN Ok(Has(pairs.out.v, symbol)) ELSE pairs.out]

\* return symbol in self.get_supported_pairs()
validate_symbol(a, symbol, resp) == SymbolIn(symbol, get_supported_pairs(a, resp))

(***************************************************************************)
(* What the caller passes and what the transport answers                   *)
(***************************************************************************)
\* "BTC-BRL" and a mixed-case pair no catalog lists
Symbols == { <<"B","T","C","-","B","R","L">>, <<"I","n","v","-","B","R","L">> }

\* strings given to _convert_symbol: the canonical pairs, a lower-case pair,
\* two hyphens, hyphens only, the empty string, an underscore
TranslationInputs ==
    Symbols \cup { <<"e","t","h","-","b","r","l">>, <<"A","-","b","-","C">>,
                   <<"-","-">>, <<>>, <<"u","_","X">> }

\* in every table, in the tables of Binance and Bybit only, in no table
Timeframes == {"1h", "3m", "2w"}

\* <<start_date, end_date>>
DateRanges == { <<1500500, 3600000>>, <<999999, 61000001>> }

S35000 == JStr(<<"3","5","0","0","0",".","0">>)
S36000 == JStr(<<"3","6","0","0","0",".","0">>)
S34000 == JStr(<<"3","4","0","0","0",".","0">>)
S35500 == JStr(<<"3","5","5","0","0",".","0">>)
S100 == JStr(<<"1","0","0",".","0">>)
S3500000 == JStr(<<"3","5","0","0","0","0","0",".","0">>)
SBad == JStr(<<"x">>)

\* the timestamps of the rows the exchange returns
RowTimes == {1000, 2000}

\* a kline row as Binance, MEXC and Foxbit send it
PosRow(ts) ==
    JList(<<JNum(ts), S35000, S36000, S34000, S35500, S100, JNum(ts + 999),
            S3500000, JNum(7)>>)

\* a row as Bitget, Bybit and OKX send it: the timestamp a string, seven cells
StrTsRow == JList(<<JStr(<<"1","0","0","0">>), S35000, S36000, S34000, S35500, S100, S3500000>>)

\* a row that is cut short
ShortRow == JList(<<JNum(1000), S35000>>)

\* a row whose open price is no number
BadRow ==
    JList(<<JNum(1000), SBad, S36000, S34000, S35500, S100, JNum(1999), S3500000>>)

\* a candlestick object of Crypto.com
CryptoComRow(ts) ==
    JDict([t |-> JNum(ts), o |-> S35000, h |-> S36000, l |-> S34000, c |-> JNum(50),
           v |-> JNum(10)])

\* a kline object of Novadax
NovadaxRow(ts) ==
    JDict([score |-> JNum(ts), openPrice |-> S35000, highPrice |-> S36000,
           lowPrice |-> S34000, closePrice |-> S35500, amount |-> S100,
           vol |-> S3500000])

\* a candle object with the field names of tests/test_foxbit.py
NamedRow ==
    JDict([timestamp |-> JNum(1000), open |-> S35000, high |-> S36000, low |-> S34000,
           close |-> S35500, volume |-> S100, quoteVolume |-> S3500000])

Rows ==
    {PosRow(ts) : ts \in RowTimes} \cup {StrTsRow, ShortRow, BadRow, NamedRow}
    \cup {CryptoComRow(ts) : ts \in RowTimes} \cup {NovadaxRow(1000)}

SeqsUpTo(S, n) == UNION {[1..k -> S] : k \in 0..n}

\* a payload that reports an error
ErrorPayload == JDict([code |-> JNum(400), msg |-> JStr(<<"e","r","r">>)])

EmptyObject == JDict(<<>>)

\* payloads that carry no candles and no catalog
ShapelessBodies == {ErrorPayload, EmptyObject, JNull, JDict([data |-> JNull])}

\* the column-oriented payload of Mercado Bitcoin, one column entry per candle
Columns(ts, opens) ==
    JDict([t |-> JList([i \in 1..Len(ts) |-> JNum(ts[i])]),
           o |-> JList(opens),
           h |-> JList([i \in 1..Len(ts) |-> S36000]),
           l |-> JList([i \in 1..Len(ts) |-> S34000]),
           c |-> JList([i \in 1..Len(ts) |-> S35500]),
           v |-> JList([i \in 1..Len(ts) |-> S100])])

ColumnBodies ==
    {Columns(ts, [i \in 1..Len(ts) |-> S35000]) : ts \in SeqsUpTo(RowTimes, MaxRows)}
    \cup {Columns(<<1000>>, <<SBad>>), Columns(<<1000, 2000>>, <<S35000>>)}

\* the four places an adapter expects the list of rows at
RowContainers(rows) ==
    {JList(rows), JDict([data |-> JList(rows)]),
     JDict([result |-> JDict([list |-> JList(rows)])]),
     JDict([result |-> JDict([data |-> JList(rows)])])}

CandleBodies ==
    UNION {RowContainers(rows) : rows \in SeqsUpTo(Rows, MaxRows)}
    \cup ColumnBodies \cup ShapelessBodies

\* what requests.request / raise_for_status / json() can do instead of returning
\* a body: a RequestException, a non-2xx status, or an exception that is no
\* RequestException (a body that is not JSON under requests < 2.27, a mocked
\* transport as in tests/test_binance.py)
Failures ==
    {[kind |-> "raise", exc |-> "ConnectionError", msg |-> <<"connection refused">>],
     [kind |-> "raise", exc |-> "ValueError", msg |-> <<"no JSON object could be decoded">>],
     [kind |-> "status", code |-> 400, msg |-> <<"400 Client Error">>],
     [kind |-> "status", code |-> 500, msg |-> <<"500 Server Error">>]}

\* candles to serialize: on and off a whole second, with and without quote_volume
CandlePool ==
    {[timestamp |-> ts, open |-> 35000, high |-> 36000, low |-> 34000, close |-> cl,
      volume |-> 100, symbol |-> sym, exchange |-> "binance", timeframe |-> "1h",
      quote_volume |-> qv] :
        ts \in {1000000, 1500500}, cl \in {35500, 50}, sym \in Symbols,
        qv \in {None, Some(3500000), Some(0)}}

CandleResponses == Failures \cup {[kind |-> "body", body |-> b] : b \in CandleBodies}

Str_BTC == JStr(<<"B","T","C">>)
Str_ETH == JStr(<<"E","T","H">>)
Str_ADA == JStr(<<"A","D","A">>)
Str_BRL == JStr(BRL)
Str_USDT == JStr(<<"U","S","D","T">>)

\* the instruments a catalog can list, in the shape each exchange uses
Instruments(a) ==
    CASE a = "BinanceExchange" ->
           {JDict([symbol |-> JStr(<<"B","T","C","B","R","L">>),
                   status |-> JStr(<<"T","R","A","D","I","N","G">>)]),
            JDict([symbol |-> JStr(<<"A","D","A","B","R","L">>),
                   status |-> JStr(<<"T","R","A","D","I","N","G">>)]),
            JDict([symbol |-> JStr(<<"E","T","H","B","R","L">>),
                   status |-> JStr(<<"B","R","E","A","K">>)]),
            JDict([symbol |-> JStr(<<"B","T","C","U","S","D","T">>),
                   status |-> JStr(<<"T","R","A","D","I","N","G">>)]),
            JDict([symbol |-> JStr(<<"X","R","P","B","R","L">>)]),
            JDict([symbol |-> JStr(<<"B","R","L","X","B","R","L">>),
                   status |-> JStr(<<"T","R","A","D","I","N","G">>)])}
      [] a \in {"BitgetExchange", "BybitExchange"} ->
           {JDict([baseCoin |-> Str_BTC, quoteCoin |-> Str_BRL]),
            JDict([baseCoin |-> Str_ADA, quoteCoin |-> Str_BRL]),
            JDict([baseCoin |-> Str_ETH, quoteCoin |-> Str_USDT]),
            JDict([baseCoin |-> Str_BTC])}
      [] a = "OKXExchange" ->
           {JDict([baseCcy |-> Str_BTC, quoteCcy |-> Str_BRL]),
            JDict([baseCcy |-> Str_ADA, quoteCcy |-> Str_BRL]),
            JDict([baseCcy |-> Str_ETH, quoteCcy |-> Str_USDT]),
            JDict([baseCcy |-> Str_BTC])}
      [] a = "MEXCExchange" ->
           {JDict([status |-> JStr(<<"1">>), baseAsset |-> Str_BTC, quoteAsset |-> Str_BRL]),
            JDict([status |-> JStr(<<"1">>), baseAsset |-> Str_ADA, quoteAsset |-> Str_BRL]),
            JDict([status |-> JStr(<<"2">>), baseAsset |-> Str_ETH, quoteAsset |-> Str_BRL]),
            JDict([status |-> JStr(<<"1">>), baseAsset |-> Str_ETH, quoteAsset |-> Str_USDT]),
            JDict([baseAsset |-> Str_BTC, quoteAsset |-> Str_BRL])}
      [] a = "CryptoComExchange" ->
           {JDict([i |-> JStr(<<"B","T","C","_","B","R","L">>)]),
            JDict([i |-> JStr(<<"A","D","A","_","B","R","L">>)]),
            JDict([i |-> JStr(<<"E","T","H","_","U","S","D","T">>)]),
            JDict([i |-> JNull])}
      [] a = "FoxbitExchange" ->
           {JDict([symbol |-> JStr(<<"b","t","c","b","r","l">>)]),
            JDict([symbol |-> JStr(<<"a","d","a","b","r","l">>)]),
            JDict([symbol |-> JStr(<<"e","t","h","u","s","d","t">>)]),
            JDict([base |-> Str_BTC])}
      [] a = "NovadaxExchange" ->
           {JDict([symbol |-> JStr(<<"B","T","C","_","B","R","L">>)]),
            JDict([symbol |-> JStr(<<"A","D","A","_","B","R","L">>)]),
            JDict([symbol |-> JStr(<<"E","T","H","_","U","S","D","T">>)]),
            JDict([symbol |-> JNull])}
      [] a = "MercadoBitcoinExchange" ->
           {JDict([symbol |-> JStr(<<"B","T","C","-","B","R","L">>),
                   type |-> JStr(<<"C","R","Y","P","T","O">>)]),
            JDict([symbol |-> JStr(<<"A","D","A","-","B","R","L">>),
                   type |-> JStr(<<"C","R","Y","P","T","O">>)]),
            JDict([symbol |-> JStr(<<"E","T","H","-","U","S","D","T">>),
                   type |-> JStr(<<"C","R","Y","P","T","O">>)]),
            JDict([symbol |-> JStr(<<"F","A","N","-","B","R","L">>),
                   type |-> JStr(<<"F","A","N","_","T","O","K","E","N">>)])}

\* the catalog payload of each exchange around its list of instruments
CatalogBody(a, entries) ==
    CASE a \in {"BinanceExchange", "MEXCExchange"} -> JDict([symbols |-> JList(entries)])
      [] a \in {"BitgetExchange", "FoxbitExchange", "NovadaxExchange", "OKXExchange"} ->
           JDict([data |-> JList(entries)])
      [] a = "BybitExchange" -> JDict([result |-> JDict([list |-> JList(entries)])])
      [] a = "CryptoComExchange" -> JDict([result |-> JDict([data |-> JList(entries)])])
      [] a = "MercadoBitcoinExchange" -> JList(entries)

CatalogResponses(a) ==
    Failures
    \cup {[kind |-> "body", body |-> CatalogBody(a, es)] :
             es \in SeqsUpTo(Instruments(a), MaxEntries)}
    \cup {[kind |-> "body", body |-> b] : b \in ShapelessBodies \cup {JList(<<>>)}}

(***************************************************************************)
(* S3Storage                                                               *)
(***************************************************************************)
\* a date as "%Y", "%m" and "%d" print it
Pad2(n) == <<Digits[(n \div 10) + 1], Digits[(n % 10) + 1]>>
Pad4(n) == Pad2(n \div 100) \o Pad2(n % 100)

\* earlier, on timestamps <<year, month, day>>
DateLess(t, u) ==
    \/ t[1] < u[1]
    \/ t[1] = u[1] /\ t[2] < u[2]
    \/ t[1] = u[1] /\ t[2] = u[2] /\ t[3] < u[3]

\* what min() gives on an empty datetime column
NaT == <<>>

\* df["timestamp"].min(); a frame is its column names and its rows
MinTimestamp(df) ==
    IF ~Has(df.columns, "timestamp") THEN Raise("KeyError", <<"timestamp">>)
    ELSE IF df.rows = <<>> THEN Ok(NaT)
    ELSE Ok(CHOOSE t \in {df.rows[i].timestamp : i \in 1..Len(df.rows)} :
                \A i \in 1..Len(df.rows) : ~DateLess(df.rows[i].timestamp, t))

\* the f-string of _get_s3_key for the timestamp t
KeyFor(t, exchange, symbol, by_day) ==
    <<"candles/year=">> \o Pad4(t[1]) \o <<"/month=">> \o Pad2(t[2])
    \o (IF by_day THEN <<"/day=">> \o Pad2(t[3]) ELSE <<>>)
    \o <<"/exchange=", exchange, "/symbol=", symbol, "/data.parquet">>

\* the key of the object, once the first timestamp is known
KeyOfFirst(first, exchange, symbol, by_day) ==
    IF ~first.ok THEN first
    ELSE IF first.v = NaT
         THEN Raise("ValueError", <<"NaTType does not support strftime">>)
         ELSE Ok(KeyFor(first.v, exchange, symbol, by_day))

\* self._get_s3_key(df, exchange, symbol)
_get_s3_key(df, exchange, symbol, by_day) ==
    KeyOfFirst(MinTimestamp(df), exchange, symbol, by_day)

\* s3_client.head_object(Bucket, Key): S3 answers for the object, refuses the
\* caller, or cannot be reached
head_object(objects, key, answer) ==
    CASE answer = "unreachable" -> Raise("EndpointConnectionError", <<"Could not connect">>)
      [] answer = "denied" -> Raise("ClientError", <<"403">>)
      [] answer = "answer" ->
           IF \E o \in objects : o.Key = key THEN Ok("metadata")
           ELSE Raise("ClientError", <<"404">>)

\* df.to_parquet(index=False)
to_parquet(df, outcome) ==
    IF outcome = "raise" THEN Raise("ImportError", <<"Unable to find a usable engine">>)
    ELSE Ok([columns |-> df.columns, rows |-> df.rows])

\* s3_client.put_object(Bucket, Key, Body): the object at Key becomes Body
put_object(objects, key, body, outcome) ==
    IF outcome = "raise" THEN [out |-> Raise("ClientError", <<"403">>), objects |-> objects]
    ELSE [out |-> Ok("etag"),
          objects |-> {o \in objects : o.Key # key} \cup {[Key |-> key, Body |-> body]}]

\* the record of s3_client.head_object(Bucket, Key) among the calls issued
HeadObject(key) == [method |-> "head_object", Key |-> key]

\* return success, having issued the S3 calls issued and left the bucket as objects
Returned(success, issued, objects) ==
    [out |-> Ok(success), requests |-> issued, objects |-> objects]

\* the end of store_candles: True after put_object, False from except Exception
AfterPut(put, issued) == Returned(put.out.ok, issued, put.objects)

\* the upload of store_candles, body being what to_parquet gave
UploadBody(body, key, env, objects, issued) ==
    IF ~body.ok THEN Returned(FALSE, issued, objects)
    ELSE AfterPut(put_object(objects, key, body.v, env.put),
                  Append(issued, [method |-> "put_object", Key |-> key, Body |-> body.v]))

\* except ClientError: pass, only when S3 said the object is not there
ProbeSaysNotFound(probe) == probe.exc = "ClientError" /\ probe.msg = <<"404">>

\* except ClientError: pass
ProbeSaysAbsent(probe) == probe.exc = "ClientError"

\* store_candles after the existence probe
AfterProbe(probe, key, df, env, objects) ==
    IF probe.ok THEN Returned(FALSE, <<HeadObject(key)>>, objects)
    ELSE IF ProbeSaysAbsent(probe)
         THEN UploadBody(to_parquet(df, env.parquet), key, env, objects, <<HeadObject(key)>>)
         ELSE Returned(FALSE, <<HeadObject(key)>>, objects)

\* store_candles after the key computation
StoreAtKey(key, df, overwrite, env, objects) ==
    IF ~key.ok THEN Returned(FALSE, <<>>, objects)
    ELSE IF overwrite
         THEN UploadBody(to_parquet(df, env.parquet), key.v, env, objects, <<>>)
         ELSE AfterProbe(head_object(objects, key.v, env.head), key.v, df, env, objects)

\* self.store_candles(df, exchange, symbol, overwrite) on the bucket objects;
\* env is what S3 and pandas answer during the call
store_candles(df, exchange, symbol, overwrite, env, objects, by_day) ==
    StoreAtKey(_get_s3_key(df, exchange, symbol, by_day), df, overwrite, env, objects)

\* results[exchange] = success, every earlier entry forgotten
StepKeepingLast(acc, exchange, r) ==
    [results |-> <<<<exchange, r.out.v>>>>, requests |-> acc.requests \o r.requests,
     objects |-> r.objects]

\* results[exchange] = success, r being what store_candles did
Step(acc, exchange, r) ==
    [results |-> Append(acc.results, <<exchange, r.out.v>>),
     requests |-> acc.requests \o r.requests,
     objects |-> r.objects]

RECURSIVE StoreLoop(_, _, _, _, _, _)
\* for exchange, df in dfs.items(): dfs the items in insertion order, envs what
\* S3 and pandas answer during each store
StoreLoop(dfs, envs, symbol, overwrite, by_day, acc) ==
    IF dfs = <<>> THEN acc
    ELSE StoreLoop(Tail(dfs), Tail(envs), symbol, overwrite, by_day,
                   Step(acc, Head(dfs)[1],
                        store_candles(Head(dfs)[2], Head(dfs)[1], symbol, overwrite,
                                      Head(envs), acc.objects, by_day)))

\* the mapping store_multiple_exchanges returns, as its items in insertion order
ReturnedResults(acc) ==
    [out |-> Ok(acc.results), requests |-> acc.requests, objects |-> acc.objects]

\* self.store_multiple_exchanges(dfs, symbol, overwrite)
store_multiple_exchanges(dfs, symbol, overwrite, envs, objects, by_day) ==
    ReturnedResults(StoreLoop(dfs, envs, symbol, overwrite, by_day,
                              [results |-> <<>>, requests |-> <<>>, objects |-> objects]))

\* two frames of candles: the first with its rows out of order
FrameA ==
    [columns |-> <<"timestamp", "close">>,
     rows |-> << [timestamp |-> <<2024, 1, 16>>, close |-> 35500],
                 [timestamp |-> <<2024, 1, 15>>, close |-> 35000] >>]
FrameB ==
    [columns |-> <<"timestamp", "close">>,
     rows |-> << [timestamp |-> <<2024, 1, 16>>, close |-> 36000] >>]

\* a frame without rows, and one without the timestamp column
EmptyFrame == [columns |-> <<"timestamp", "close">>, rows |-> <<>>]
NoTimestampFrame == [columns |-> <<"close">>, rows |-> << [close |-> 35000] >>]

Frames == {FrameA, FrameB, EmptyFrame, NoTimestampFrame}

Exchanges == {"binance", "okx"}

\* what S3 and pandas can answer during one store_candles
S3Answers ==
    [head : {"answer", "denied", "unreachable"}, parquet : {"ok", "raise"},
     put : {"ok", "raise"}]

\* the answers during the stores of store_multiple_exchanges
SeriesAnswers ==
    {[head |-> "answer", parquet |-> "ok", put |-> "ok"],
     [head |-> "denied", parquet |-> "ok", put |-> "ok"],
     [head |-> "answer", parquet |-> "raise", put |-> "ok"],
     [head |-> "unreachable", parquet |-> "ok", put |-> "raise"]}

\* the dicts of frames by exchange: the items in insertion order, no key twice
FramesByExchange ==
    {dfs \in SeqsUpTo(Exchanges \X (Frames \ {NoTimestampFrame}), Cardinality(Exchanges)) :
        \A i, j \in 1..Len(dfs) : i # j => dfs[i][1] # dfs[j][1]}

(***************************************************************************)
(* State: the call in progress, the requests it has issued, the response   *)
(* the transport gave, and what the call returns or raises.  What outlives *)
(* a call: tables, the _supported_timeframes attribute __init__ gave each  *)
(* adapter instance; partition_by_day, the S3Storage instance's layout     *)
(* flag; bucket, the objects of the S3 bucket.                             *)
(***************************************************************************)
VARIABLES call, requests, response, result, tables, partition_by_day, bucket

vars == <<call, requests, response, result, tables, partition_by_day, bucket>>

NoCall == [op |-> "none"]
NoResponse == [kind |-> "none"]

\* no call in progress
NoFrame ==
    /\ call = NoCall
    /\ requests = <<>>
    /\ response = NoResponse
    /\ result = Ok(<<>>)

\* one instance of every adapter, an S3Storage with the default layout, an
\* empty bucket
Init ==
    /\ NoFrame
    /\ tables = [a \in Adapters |-> _supported_timeframes(a)]
    /\ partition_by_day = FALSE
    /\ bucket = {}

GetCandles(a, symbol, timeframe, start_date, end_date, resp) ==
    LET r == get_candles(a, symbol, timeframe, start_date, end_date, resp)
    IN /\ call' = [op |-> "get_candles", adapter |-> a, symbol |-> symbol,
                   timeframe |-> timeframe, start_date |-> start_date,
                   end_date |-> end_date]
       /\ requests' = r.requests
       /\ response' = IF r.requests = <<>> THEN NoResponse ELSE resp
       /\ result' = r.out
       /\ UNCHANGED <<tables, partition_by_day, bucket>>

GetSupportedPairs(a, resp) ==
    LET r == get_supported_pairs(a, resp)
    IN /\ call' = [op |-> "get_supported_pairs", adapter |-> a]
       /\ requests' = r.requests
       /\ response' = IF r.requests = <<>> THEN NoResponse ELSE resp
       /\ result' = r.out
       /\ UNCHANGED <<tables, partition_by_day, bucket>>

ValidateTimeframe(a, timeframe) ==
    /\ call' = [op |-> "validate_timeframe", adapter |-> a, timeframe |-> timeframe]
    /\ requests' = <<>>
    /\ response' = NoResponse
    /\ result' = Ok(validate_timeframe(a, timeframe))
    /\ UNCHANGED <<tables, partition_by_day, bucket>>

\* a.get_supported_timeframes(): a list built from the keys of the instance's
\* table
GetSupportedTimeframes(a) ==
    /\ call' = [op |-> "get_supported_timeframes", adapter |-> a]
    /\ requests' = <<>>
    /\ response' = NoResponse
    /\ result' = Ok(keys(tables[a]))
    /\ UNCHANGED <<tables, partition_by_day, bucket>>

\* a._convert_symbol(symbol)
ConvertSymbol(a, symbol) ==
    /\ call' = [op |-> "_convert_symbol", adapter |-> a, symbol |-> symbol]
    /\ requests' = <<>>
    /\ response' = NoResponse
    /\ result' = Ok(_convert_symbol(a, symbol))
    /\ UNCHANGED <<tables, partition_by_day, bucket>>

\* the caller's returned.append(timeframe), were the returned list the very
\* object the adapter reads its keys from
AppendToSharedList(timeframe) ==
    /\ call' = [op |-> "append", adapter |-> call.adapter, timeframe |-> timeframe]
    /\ result' = Ok(Append(result.v, timeframe))
    /\ tables' = [tables EXCEPT ![call.adapter] = Append(@, <<timeframe, timeframe>>)]
    /\ UNCHANGED <<requests, response, partition_by_day, bucket>>

\* the caller's returned.append(timeframe) on the list get_supported_timeframes
\* gave: list(...) built that list anew, so the append reaches no attribute
\* of the adapter
AppendToReturnedList(timeframe) ==
    /\ call' = [op |-> "append", adapter |-> call.adapter, timeframe |-> timeframe]
    /\ result' = Ok(Append(result.v, timeframe))
    /\ UNCHANGED <<requests, response, tables, partition_by_day, bucket>>

\* the calls of a series of validate_symbol calls made so far on one adapter
SeriesLength(a) ==
    IF call.op = "validate_symbol" /\ call.adapter = a THEN call.n ELSE 0

\* the state after a validate_symbol call: r is what the call issued and gave
AfterValidateSymbol(a, symbol, n, earlier, r, resp) ==
    /\ call' = [op |-> "validate_symbol", adapter |-> a, symbol |-> symbol, n |-> n]
    /\ requests' = earlier \o r.requests
    /\ response' = resp
    /\ result' = r.out
    /\ UNCHANGED <<tables, partition_by_day, bucket>>

\* the requests the validate_symbol calls of the series have issued so far
SeriesRequests(a) == IF SeriesLength(a) = 0 THEN <<>> ELSE requests

\* a validate_symbol call that answers from the catalog an earlier call of the
\* series fetched
ValidateSymbolCached(a, symbol, resp) ==
    IF SeriesLength(a) = 0
    THEN AfterValidateSymbol(a, symbol, 1, <<>>, validate_symbol(a, symbol, resp), resp)
    ELSE AfterValidateSymbol(a, symbol, call.n + 1, requests,
                             [requests |-> <<>>,
                              out |-> validate_symbol(a, symbol, response).out],
                             response)

\* validate_symbol, alone or following other validate_symbol calls on the same
\* adapter: requests holds the requests of the whole series, response and
\* result belong to the latest call
ValidateSymbol(a, symbol, resp) ==
    AfterValidateSymbol(a, symbol, SeriesLength(a) + 1, SeriesRequests(a),
                        validate_symbol(a, symbol, resp), resp)

\* the to_dict calls made so far, one after the other, on the candle c
Serializations(c) ==
    IF call.op = "to_dict" /\ call.candle = c THEN call.n ELSE 0

\* c.to_dict(), alone or following other to_dict calls on the same candle:
\* candle is the object after the call (to_dict assigns no field), earlier the
\* mapping the call before this one returned
ToDict(c) ==
    /\ call' = [op |-> "to_dict", candle |-> c, n |-> Serializations(c) + 1,
                earlier |-> IF Serializations(c) = 0 THEN <<>> ELSE <<result.v>>]
    /\ requests' = <<>>
    /\ response' = NoResponse
    /\ result' = Ok(to_dict(c))
    /\ UNCHANGED <<tables, partition_by_day, bucket>>

\* the state after a call on the storage: r is what the call issued, gave and
\* left in the bucket
AfterStore(c, answers, r) ==
    /\ call' = c
    /\ requests' = r.requests
    /\ response' = [kind |-> "s3", answers |-> answers]
    /\ result' = r.out
    /\ bucket' = r.objects
    /\ UNCHANGED <<tables, partition_by_day>>

\* storage.store_candles(df, exchange, symbol, overwrite); before is the bucket
\* as the call found it
StoreCandles(df, exchange, symbol, overwrite, env) ==
    AfterStore([op |-> "store_candles", df |-> df, exchange |-> exchange,
                symbol |-> symbol, overwrite |-> overwrite, before |-> bucket],
               env,
               store_candles(df, exchange, symbol, overwrite, env, bucket,
                             partition_by_day))

\* storage.store_multiple_exchanges(dfs, symbol, overwrite)
StoreMultipleExchanges(dfs, symbol, overwrite, envs) ==
    AfterStore([op |-> "store_multiple_exchanges", dfs |-> dfs, symbol |-> symbol,
                overwrite |-> overwrite, before |-> bucket],
               envs,
               store_multiple_exchanges(dfs, symbol, overwrite, envs, bucket,
                                        partition_by_day))

\* the caller has the outcome; the call's frame is gone
Return ==
    /\ call # NoCall
    /\ call' = NoCall
    /\ requests' = <<>>
    /\ response' = NoResponse
    /\ result' = Ok(<<>>)
    /\ UNCHANGED <<tables, partition_by_day, bucket>>

\* a caller makes one call at a time
Idle == call = NoCall

Next ==
    \/ /\ Idle
       /\ \E a \in Adapters, symbol \in Symbols, timeframe \in Timeframes,
             d \in DateRanges, resp \in CandleResponses :
              GetCandles(a, symbol, timeframe, d[1], d[2], resp)
    \/ /\ Idle
       /\ \E a \in Adapters : \E resp \in CatalogResponses(a) :
              GetSupportedPairs(a, resp)
    \/ /\ Idle
       /\ \E a \in Adapters, timeframe \in Timeframes : ValidateTimeframe(a, timeframe)
    \/ /\ Idle
       /\ \E a \in Adapters : GetSupportedTimeframes(a)
    \/ /\ Idle
       /\ \E a \in Adapters, symbol \in TranslationInputs : ConvertSymbol(a, symbol)
    \/ /\ call.op = "get_supported_timeframes"
       /\ \E timeframe \in Timeframes : AppendToReturnedList(timeframe)
    \/ /\ Idle
       /\ \E a \in Adapters, symbol \in Symbols : \E resp \in CatalogResponses(a) :
              ValidateSymbol(a, symbol, resp)
    \/ /\ call.op = "validate_symbol" /\ call.n < MaxCalls
       /\ \E a \in Adapters, symbol \in Symbols : \E resp \in CatalogResponses(a) :
              a = call.adapter /\ ValidateSymbol(a, symbol, resp)
    \/ /\ Idle
       /\ \E c \in CandlePool : ToDict(c)
    \/ /\ call.op = "to_dict" /\ call.n < MaxCalls
       /\ ToDict(call.candle)
    \/ Return

Spec == Init /\ [][Next]_vars

\* an S3Storage of either layout, on an empty bucket
InitS3 ==
    /\ NoFrame
    /\ tables = [a \in Adapters |-> _supported_timeframes(a)]
    /\ partition_by_day \in BOOLEAN
    /\ bucket = {}

NextS3 ==
    \/ /\ Idle
       /\ \E df \in Frames, exchange \in Exchanges, overwrite \in BOOLEAN,
             env \in S3Answers :
              StoreCandles(df, exchange, "BTC-BRL", overwrite, env)
    \/ /\ Idle
       /\ \E dfs \in FramesByExchange, overwrite \in BOOLEAN :
              \E envs \in [1..Len(dfs) -> SeriesAnswers] :
                  StoreMultipleExchanges(dfs, "BTC-BRL", overwrite, envs)
    \/ Return

SpecS3 == InitS3 /\ [][NextS3]_vars

(***************************************************************************)
(* Properties                                                              *)
(***************************************************************************)
InGetCandles == call.op = "get_candles"
InGetSupportedPairs == call.op = "get_supported_pairs"

\* some segment of str(e) is seg
MsgHas(msg, seg) == \E i \in 1..Len(msg) : msg[i] = seg

Inv_BRL == <<"I","n","v","-","B","R","L">>

\* the query parameter (or path segment) of the candle request that names the pair
RequestSymbol(req) ==
    CASE req.endpoint = "markets/{symbol}/candlesticks" -> req.path_symbol
      [] req.endpoint = "public/get-candlestick" -> req.params.instrument_name
      [] req.endpoint = "market/history-candles" -> req.params.instId
      [] OTHER -> req.params.symbol

\* the endpoints get_supported_pairs queries
CatalogEndpoints == {CatalogRequest(a).endpoint : a \in Adapters}

\* the lowercase identifier the contract fixes for each of the nine adapters
FixedIdentifier ==
    [a \in Adapters |->
        CASE a = "BinanceExchange" -> "binance"
          [] a = "BitgetExchange" -> "bitget"
          [] a = "BybitExchange" -> "bybit"
          [] a = "CryptoComExchange" -> "crypto_com"
          [] a = "FoxbitExchange" -> "foxbit"
          [] a = "MercadoBitcoinExchange" -> "mercado_bitcoin"
          [] a = "MEXCExchange" -> "mexc"
          [] a = "NovadaxExchange" -> "novadax"
          [] a = "OKXExchange" -> "okx"]

\* C1: every Candle a successful get_candles returns carries the symbol and the
\* timeframe exactly as the caller passed them, and the adapter's fixed
\* lowercase identifier as its exchange.
C1_CandlesEchoRequest ==
    (InGetCandles /\ result.ok) =>
        \A i \in 1..Len(result.v) :
            /\ result.v[i].symbol = call.symbol
            /\ result.v[i].timeframe = call.timeframe
            /\ result.v[i].exchange = FixedIdentifier[call.adapter]

\* a Bybit call whose native symbol and native timeframe both differ from the
\* canonical ones returned candles
C1_Witness ==
    /\ InGetCandles /\ result.ok /\ Len(result.v) = MaxRows
    /\ call.adapter = "BybitExchange"
    /\ requests[1].params.symbol # call.symbol
    /\ requests[1].params.interval # call.timeframe

EagerAdapters ==
    {"BitgetExchange", "BybitExchange", "CryptoComExchange", "MEXCExchange",
     "NovadaxExchange", "OKXExchange"}

IsKey(a, timeframe) == Has(get_supported_timeframes(a), timeframe)

\* C2: on Bitget, Bybit, Crypto.com, MEXC, Novadax and OKX a timeframe that is no
\* key of the adapter's table makes get_candles fail with an unsupported-timeframe
\* error of the adapter's own type, and no HTTP request has been issued.
C2_EagerRejectsBeforeRequest ==
    (InGetCandles /\ call.adapter \in EagerAdapters
        /\ ~IsKey(call.adapter, call.timeframe)) =>
        /\ ~result.ok
        /\ result.exc = APIError(call.adapter)
        /\ MsgHas(result.msg, "Unsupported timeframe")
        /\ requests = <<>>

\* "3m" is a key for Bybit and none for OKX: OKX refused it without a request
C2_Witness ==
    /\ InGetCandles /\ call.adapter = "OKXExchange" /\ call.timeframe = "3m"
    /\ ~result.ok /\ requests = <<>> /\ response = NoResponse

PassthroughAdapters == {"BinanceExchange", "FoxbitExchange", "MercadoBitcoinExchange"}

\* the parameter of the candle request that carries the timeframe
RequestTimeframe(req) ==
    IF req.endpoint = "candles" THEN req.params.resolution ELSE req.params.interval

C4_PassthroughRaisesValueError ==
    (InGetCandles /\ call.adapter \in {"BinanceExchange", "FoxbitExchange"}
        /\ ~IsKey(call.adapter, call.timeframe)) =>
        /\ ~result.ok
        /\ result.exc = "ValueError"
        /\ MsgHas(result.msg, "Unsupported timeframe")

\* the timeframe passes the adapter's own check
PassesTimeframeCheck ==
    call.adapter \in PassthroughAdapters \/ IsKey(call.adapter, call.timeframe)

C6_UnsupportedSymbolRaisesValueError ==
    (InGetCandles /\ call.adapter \in {"BinanceExchange", "FoxbitExchange"}
        /\ call.symbol = Inv_BRL) =>
        /\ ~result.ok
        /\ result.exc = "ValueError"
        /\ MsgHas(result.msg, "Unsupported symbol")

\* the exception class each adapter module declares for itself
OwnError ==
    [a \in Adapters |->
        CASE a = "BinanceExchange" -> "BinanceAPIError"
          [] a = "BitgetExchange" -> "BitgetAPIError"
          [] a = "BybitExchange" -> "BybitAPIError"
          [] a = "CryptoComExchange" -> "CryptoComAPIError"
          [] a = "FoxbitExchange" -> "FoxbitAPIError"
          [] a = "MercadoBitcoinExchange" -> "MercadoBitcoinAPIError"
          [] a = "MEXCExchange" -> "MEXCAPIError"
          [] a = "NovadaxExchange" -> "NovadaxAPIError"
          [] a = "OKXExchange" -> "OKXAPIError"]

\* C7: whatever makes get_candles fail (transport, status, timeframe, parsing),
\* the caller gets the adapter's own error type and no other exception type.
C7_CandlesFailWithOwnError ==
    (InGetCandles /\ ~result.ok) => result.exc = OwnError[call.adapter]

\* the transport raised an exception that is no RequestException, so that
\* _make_request let it through, and get_candles still raised the adapter's error
C7_Witness ==
    /\ InGetCandles /\ ~result.ok
    /\ response.kind = "raise" /\ response.exc = "ValueError"
    /\ result.exc = OwnError[call.adapter]

\* C8: a 2xx response whose body is an error payload (no candle container, no
\* candle fields) makes get_candles fail with the adapter's error; it never
\* returns a list, an empty one included.
C8_ErrorPayloadFails ==
    (InGetCandles /\ response.kind = "body" /\ response.body = ErrorPayload) =>
        /\ ~result.ok
        /\ result.exc = OwnError[call.adapter]

\* C9: an exception raised while get_supported_pairs indexes into the catalog
\* response leaves it as the adapter's own error type, in all nine adapters.
C9_PairsFailWithOwnError ==
    (InGetSupportedPairs /\ response.kind = "body" /\ ~result.ok) =>
        result.exc = OwnError[call.adapter]

\* C10: get_supported_pairs always, and get_candles once the timeframe has
\* passed the local check, issue exactly one HTTP GET request, whether the
\* response is data, an error payload, a bad status or a transport failure.
C10_ExactlyOneRequest ==
    ((InGetCandles /\ PassesTimeframeCheck) \/ InGetSupportedPairs) =>
        /\ Len(requests) = 1
        /\ requests[1].method = "GET"

\* a call whose single request failed in the transport: it ended without a second try
C10_Witness ==
    /\ InGetCandles /\ PassesTimeframeCheck
    /\ response.kind = "raise" /\ response.exc = "ConnectionError"
    /\ ~result.ok /\ Len(requests) = 1

\* the adapters the contract says filter the catalog by quote currency
QuoteFilterAdapters ==
    {"BitgetExchange", "BybitExchange", "CryptoComExchange", "MEXCExchange",
     "NovadaxExchange", "OKXExchange"}

\* the text before and after the "_" of an instrument name such as BTC_BRL
BeforeSep(s) == SubSeq(s, 1, IndexOf(s, "_") - 1)
AfterSep(s) == SubSeq(s, IndexOf(s, "_") + 1, Len(s))

\* the base and the quote currency a catalog entry names
BaseOf(a, e) ==
    CASE a \in {"BitgetExchange", "BybitExchange"} -> e.f.baseCoin.s
      [] a = "OKXExchange" -> e.f.baseCcy.s
      [] a = "MEXCExchange" -> e.f.baseAsset.s
      [] a = "CryptoComExchange" -> BeforeSep(e.f.i.s)
      [] a = "NovadaxExchange" -> BeforeSep(e.f.symbol.s)

QuoteOf(a, e) ==
    CASE a \in {"BitgetExchange", "BybitExchange"} -> e.f.quoteCoin.s
      [] a = "OKXExchange" -> e.f.quoteCcy.s
      [] a = "MEXCExchange" -> e.f.quoteAsset.s
      [] a = "CryptoComExchange" -> AfterSep(e.f.i.s)
      [] a = "NovadaxExchange" -> AfterSep(e.f.symbol.s)

\* how many times x occurs in seq
Count(seq, x) == Cardinality({i \in 1..Len(seq) : seq[i] = x})

\* the entries of the catalog the call in progress received
ReceivedEntries == CatalogEntries(call.adapter, response.body).v

\* the positions of the BRL-quoted entries of the received catalog
BRLQuoted == {j \in 1..Len(ReceivedEntries) : QuoteOf(call.adapter, ReceivedEntries[j]) = BRL}

\* BASE-BRL of the entry at position j
CanonicalPair(j) == BaseOf(call.adapter, ReceivedEntries[j]) \o <<"-">> \o BRL

\* C11: on Bitget, Bybit, Crypto.com, MEXC, Novadax and OKX a successful
\* get_supported_pairs returns the BRL-quoted entries of the catalog, each one
\* of them as BASE-BRL, and nothing else.
C11_PairsAreTheBRLEntries ==
    (InGetSupportedPairs /\ call.adapter \in QuoteFilterAdapters
        /\ response.kind = "body" /\ result.ok) =>
        /\ \A j \in BRLQuoted :
              Count(result.v, CanonicalPair(j))
                  = Cardinality({k \in BRLQuoted : CanonicalPair(k) = CanonicalPair(j)})
        /\ \A i \in 1..Len(result.v) :
              \E j \in BRLQuoted : CanonicalPair(j) = result.v[i]

\* the pairs the adapter collects from the received catalog, before sorted()
Collected ==
    IF call.adapter = "MercadoBitcoinExchange" THEN PandasPairs(response.body).v
    ELSE PairsLoop(call.adapter, ReceivedEntries).v

\* C12: in all nine adapters the list a successful get_supported_pairs returns
\* is in ascending lexicographic order whatever the order of the catalog, and
\* holds each pair as many times as the catalog lists it.
C12_PairsSortedNotDeduplicated ==
    (InGetSupportedPairs /\ response.kind = "body" /\ result.ok) =>
        /\ \A i \in 1..(Len(result.v) - 1) :
              result.v[i] = result.v[i + 1] \/ StrLess(result.v[i], result.v[i + 1])
        /\ Len(result.v) = Len(Collected)
        /\ \A i \in 1..Len(Collected) :
              Count(result.v, Collected[i]) = Count(Collected, Collected[i])

\* OKX listed BTC before ADA and the caller got ADA-BRL before BTC-BRL
C12_Witness ==
    /\ InGetSupportedPairs /\ call.adapter = "OKXExchange"
    /\ response.kind = "body" /\ result.ok
    /\ Len(Collected) >= 2
    /\ StrLess(Collected[2], Collected[1])
    /\ result.v[1] = <<"A","D","A","-","B","R","L">>
    /\ result.v[Len(result.v)] = <<"B","T","C","-","B","R","L">>

InValidateTimeframe == call.op = "validate_timeframe"

\* the canonical keys of the adapter's timeframe table
TableKeys(a) == {_supported_timeframes(a)[i][1] : i \in 1..Len(_supported_timeframes(a))}

\* the strings get_supported_timeframes returns
ReturnedTimeframes(a) ==
    {get_supported_timeframes(a)[i] : i \in 1..Len(get_supported_timeframes(a))}

\* C13: validate_timeframe(t) is true exactly when t is a key of the adapter's
\* timeframe table, the keys being exactly what get_supported_timeframes
\* returns, and it issues no HTTP request.
C13_ValidateTimeframeIsKeyLookup ==
    InValidateTimeframe =>
        /\ result.ok
        /\ result.v = (call.timeframe \in TableKeys(call.adapter))
        /\ TableKeys(call.adapter) = ReturnedTimeframes(call.adapter)
        /\ requests = <<>>

\* Bybit knows "1h" by the key and sends "60": the key validates
C13_Witness ==
    /\ InValidateTimeframe /\ call.adapter = "BybitExchange" /\ call.timeframe = "1h"
    /\ result.ok /\ result.v = TRUE /\ requests = <<>>

InValidateSymbol == call.op = "validate_symbol"

\* what get_supported_pairs gives for the catalog response of the latest call
PairsOfThisCall == get_supported_pairs(call.adapter, response).out

\* C14: validate_symbol(s) is true exactly when s is in the list
\* get_supported_pairs returns for the catalog response of that same call;
\* nothing is cached, n consecutive calls have issued n catalog requests; a
\* failure of get_supported_pairs comes out as that error, never as False.
C14_ValidateSymbolRefetches ==
    InValidateSymbol =>
        /\ Len(requests) = call.n
        /\ \A i \in 1..Len(requests) : requests[i] = CatalogRequest(call.adapter)
        /\ result.ok = PairsOfThisCall.ok
        /\ result.ok =>
              result.v = (\E i \in 1..Len(PairsOfThisCall.v) :
                              PairsOfThisCall.v[i] = call.symbol)
        /\ ~result.ok => result = PairsOfThisCall

\* the last call of a full series found BTC-BRL in the catalog it fetched itself
C14_Witness ==
    /\ InValidateSymbol /\ call.n = MaxCalls /\ Len(requests) = MaxCalls
    /\ call.symbol = <<"B","T","C","-","B","R","L">>
    /\ result.ok /\ result.v = TRUE

\* the rows of the received response, as the parse loop of the adapter visits them
ReceivedRows == LoopItems(call.adapter, response.body)

\* the candle the adapter builds from one row taken alone
CandleOfRow(row) == ParseLoop(call.adapter, <<row>>, call.symbol, call.timeframe)

\* C15: a successful get_candles returns one Candle per row of the response, in
\* the order of the rows: nothing is sorted, deduplicated or filtered against
\* the requested range.
C15_OneCandlePerRowInOrder ==
    (InGetCandles /\ response.kind = "body" /\ result.ok) =>
        /\ ReceivedRows.ok
        /\ Len(result.v) = Len(ReceivedRows.v)
        /\ \A i \in 1..Len(result.v) :
              /\ CandleOfRow(ReceivedRows.v[i]).ok
              /\ result.v[i] = CandleOfRow(ReceivedRows.v[i]).v[1]

\* Binance answered the newer row first and a row older than start_date: both
\* came back, in that order
C15_Witness ==
    /\ InGetCandles /\ call.adapter = "BinanceExchange" /\ result.ok
    /\ Len(result.v) = 2
    /\ result.v[1].timestamp > result.v[2].timestamp
    /\ result.v[2].timestamp < call.start_date

\* a field of the row cannot be read or converted
RowFails(row) ==
    \E k \in 1..Len(RowFields(call.adapter, row)) : ~RowFields(call.adapter, row)[k].ok

\* some row of the received response cannot be parsed
SomeRowFails ==
    /\ ReceivedRows.ok
    /\ \E i \in 1..Len(ReceivedRows.v) : RowFails(ReceivedRows.v[i])

\* C16: get_candles is all-or-nothing: when a row of the response fails to
\* parse, the last one included, the call fails with the adapter's error and
\* the caller gets no candle, not even those of the rows before it.
C16_AllOrNothing ==
    (InGetCandles /\ response.kind = "body" /\ SomeRowFails) =>
        /\ ~result.ok
        /\ result.exc = OwnError[call.adapter]

\* MEXC: the first row parses and the last one does not
C16_Witness ==
    /\ InGetCandles /\ call.adapter = "MEXCExchange" /\ response.kind = "body"
    /\ ReceivedRows.ok /\ Len(ReceivedRows.v) = MaxRows
    /\ \A i \in 1..(MaxRows - 1) : ~RowFails(ReceivedRows.v[i])
    /\ RowFails(ReceivedRows.v[MaxRows])
    /\ ~result.ok

InToDict == call.op = "to_dict"

\* C17: c.to_dict() holds open, high, low, close and volume equal to the fields
\* of c, symbol, exchange and timeframe unchanged, and always a quote_volume
\* entry, which is null exactly when c.quote_volume is unset; c is left as it
\* was, so a second call returns an equal mapping.
C17_ToDictKeepsFields ==
    InToDict =>
        /\ result.ok
        /\ result.v.open = call.candle.open
        /\ result.v.high = call.candle.high
        /\ result.v.low = call.candle.low
        /\ result.v.close = call.candle.close
        /\ result.v.volume = call.candle.volume
        /\ result.v.symbol = call.candle.symbol
        /\ result.v.exchange = call.candle.exchange
        /\ result.v.timeframe = call.candle.timeframe
        /\ "quote_volume" \in DOMAIN result.v
        /\ (result.v.quote_volume = None) <=> (call.candle.quote_volume = None)
        /\ call.candle.quote_volume # None => result.v.quote_volume = call.candle.quote_volume
        /\ \A i \in 1..Len(call.earlier) : call.earlier[i] = result.v

\* a candle without quote_volume serialized for the second time
C17_Witness ==
    /\ InToDict /\ call.n = 2 /\ call.candle.quote_volume = None
    /\ Len(call.earlier) = 1
    /\ result.ok /\ result.v.quote_volume = None

\* the number a cell of a kline row denotes
CellValue(row, i) == PyFloat(row.xs[i + 1]).v

\* the rows of the response are kline rows of eight cells or more
KlineRows ==
    /\ response.kind = "body" /\ response.body.t = "list"
    /\ \A i \in 1..Len(response.body.xs) :
          response.body.xs[i].t = "list" /\ Len(response.body.xs[i].xs) >= 8

\* C18: Binance get_candles reads each kline row by position: timestamp r[0]
\* in epoch milliseconds, open r[1], high r[2], low r[3], close r[4], volume
\* r[5], quote_volume r[7], r[6] and r[8..] unread; the row ["35000.0",
\* "36000.0", "34000.0", "35500.0", "100.0", close time, "3500000.0", ...]
\* gives open 35000, high 36000, low 34000, close 35500, volume 100 and
\* quote_volume 3500000.
C18_BinancePositionalMapping ==
    (InGetCandles /\ call.adapter = "BinanceExchange" /\ KlineRows /\ result.ok) =>
        /\ Len(result.v) = Len(response.body.xs)
        /\ \A i \in 1..Len(result.v) :
              LET r == response.body.xs[i]
                  c == result.v[i]
              IN /\ c.timestamp = r.xs[1].n * MicrosPerMilli
                 /\ c.open = CellValue(r, 1)
                 /\ c.high = CellValue(r, 2)
                 /\ c.low = CellValue(r, 3)
                 /\ c.close = CellValue(r, 4)
                 /\ c.volume = CellValue(r, 5)
                 /\ c.quote_volume = Some(CellValue(r, 7))
                 /\ r = PosRow(r.xs[1].n) =>
                       /\ c.open = 35000 /\ c.high = 36000 /\ c.low = 34000
                       /\ c.close = 35500 /\ c.volume = 100
                       /\ c.quote_volume = Some(3500000)

\* the row of the scenario, asked as BTC-BRL / 1h, was parsed
C18_Witness ==
    /\ InGetCandles /\ call.adapter = "BinanceExchange" /\ KlineRows /\ result.ok
    /\ call.symbol = <<"B","T","C","-","B","R","L">> /\ call.timeframe = "1h"
    /\ Len(result.v) >= 1
    /\ response.body.xs[1] = PosRow(1000)
    /\ result.v[1].quote_volume = Some(3500000)
    /\ result.v[1].exchange = "binance"

\* C19: every Candle of Crypto.com has quote_volume equal to the volume times
\* the close of its own row, not a figure of the payload; volume 10 and close
\* 50 give exactly 500.
C19_CryptoComQuoteVolume ==
    (InGetCandles /\ call.adapter = "CryptoComExchange" /\ result.ok) =>
        \A i \in 1..Len(result.v) :
            /\ result.v[i].quote_volume = Some(result.v[i].volume * result.v[i].close)
            /\ (result.v[i].volume = 10 /\ result.v[i].close = 50) =>
                   result.v[i].quote_volume = Some(500)

\* a Crypto.com candlestick with v = 10 and c = 50 became a candle
C19_Witness ==
    /\ InGetCandles /\ call.adapter = "CryptoComExchange" /\ result.ok
    /\ Len(result.v) >= 1
    /\ result.v[1].volume = 10 /\ result.v[1].close = 50
    /\ result.v[1].quote_volume = Some(500)

\* the response lists candle objects with named fields under "data"
NamedCandlesUnderData ==
    /\ response.kind = "body" /\ response.body.t = "dict"
    /\ DOMAIN response.body.f = {"data"}
    /\ response.body.f.data.t = "list"
    /\ response.body.f.data.xs # <<>>
    /\ \A i \in 1..Len(response.body.f.data.xs) : response.body.f.data.xs[i] = NamedRow

\* C20: Foxbit get_candles parses a response whose candles are objects with the
\* fields timestamp, open, high, low, close, volume, quoteVolume listed under
\* "data", and returns one Candle per object with the values of those fields.
C20_FoxbitParsesNamedFields ==
    (InGetCandles /\ call.adapter = "FoxbitExchange" /\ NamedCandlesUnderData) =>
        /\ result.ok
        /\ Len(result.v) = Len(response.body.f.data.xs)
        /\ \A i \in 1..Len(result.v) :
              /\ result.v[i].open = 35000 /\ result.v[i].high = 36000
              /\ result.v[i].low = 34000 /\ result.v[i].close = 35500
              /\ result.v[i].volume = 100
              /\ result.v[i].quote_volume = Some(3500000)

\* C21: when the HTTP transport raises during get_candles on Binance or Foxbit,
\* the message of the error the caller gets contains 'Failed to fetch candles'.
C21_TransportErrorNamesFetch ==
    (InGetCandles /\ call.adapter \in {"BinanceExchange", "FoxbitExchange"}
        /\ response.kind = "raise") =>
        /\ ~result.ok
        /\ MsgHas(result.msg, "Failed to fetch candles")

InGetSupportedTimeframes == call.op = "get_supported_timeframes"

Range(seq) == {seq[i] : i \in 1..Len(seq)}

\* the canonical timeframe vocabulary
Vocabulary ==
    {"1m", "3m", "5m", "15m", "30m", "1h", "2h", "4h", "6h", "8h", "12h",
     "1d", "3d", "1w", "1M"}

\* the keys of all the adapters' timeframe tables
UnionOfTableKeys == UNION {Range(get_supported_timeframes(a)) : a \in Adapters}

\* C22 (as stated): the union of the adapters' timeframe-table keys is the
\* fifteen-string vocabulary, and no adapter's get_supported_timeframes()
\* contains all fifteen.
C22_NoAdapterHasAllFifteen ==
    InGetSupportedTimeframes =>
        /\ UnionOfTableKeys = Vocabulary
        /\ Range(result.v) # Vocabulary

\* C22 (amended): the union of the adapters' timeframe-table keys is the
\* fifteen-string vocabulary; get_supported_timeframes() of the Binance adapter
\* contains all fifteen, and that of every other adapter lacks at least one.
C22_OnlyBinanceHasAllFifteen ==
    InGetSupportedTimeframes =>
        /\ UnionOfTableKeys = Vocabulary
        /\ Range(result.v) \subseteq Vocabulary
        /\ (Range(result.v) = Vocabulary) <=> (call.adapter = "BinanceExchange")

C22_Witness ==
    /\ InGetSupportedTimeframes
    /\ call.adapter = "BinanceExchange"
    /\ Len(result.v) = 15
    /\ Range(result.v) = Vocabulary

OKXKeys == <<"1m", "5m", "15m", "30m", "1h", "4h", "1d", "1w">>

\* C24: no call changes an adapter instance: whatever calls came before, the
\* instance's table is the one __init__ built and get_supported_timeframes()
\* returns its keys in declaration order; what a call gives depends only on
\* its arguments and on the HTTP response; appending to a list
\* get_supported_timeframes() returned leaves the table as it was.
C24_AdapterKeepsNoState ==
    /\ \A a \in Adapters : tables[a] = _supported_timeframes(a)
    /\ keys(tables["OKXExchange"]) = OKXKeys
    /\ InGetSupportedTimeframes =>
           result = Ok(get_supported_timeframes(call.adapter))
    /\ call.op = "append" =>
           /\ result.v = Append(get_supported_timeframes(call.adapter), call.timeframe)
           /\ keys(tables[call.adapter]) = get_supported_timeframes(call.adapter)
    /\ InGetCandles =>
           result = get_candles(call.adapter, call.symbol, call.timeframe,
                                call.start_date, call.end_date, response).out
    /\ InGetSupportedPairs =>
           result = get_supported_pairs(call.adapter, response).out
    /\ InValidateTimeframe =>
           result = Ok(validate_timeframe(call.adapter, call.timeframe))
    /\ InValidateSymbol =>
           result = validate_symbol(call.adapter, call.symbol, response).out

C24_Witness ==
    /\ call.op = "append"
    /\ call.adapter = "OKXExchange"
    /\ call.timeframe = "2w"
    /\ result.v = Append(OKXKeys, "2w")
    /\ keys(tables["OKXExchange"]) = OKXKeys

\* the adapters whose API counts time in milliseconds, and in seconds
MillisecondAdapters ==
    {"BinanceExchange", "BitgetExchange", "BybitExchange", "CryptoComExchange",
     "FoxbitExchange", "MEXCExchange", "OKXExchange"}
SecondAdapters == {"MercadoBitcoinExchange", "NovadaxExchange"}

\* microseconds in one unit of the epoch numbers the adapter's API uses
MicrosPerUnit(a) ==
    CASE a \in MillisecondAdapters -> 1000
      [] a \in SecondAdapters -> 1000000

\* <<start, end>> as the candle request carries them
RequestRange(req) ==
    CASE req.endpoint = "market/history-candles" -> <<req.params.before, req.params.after>>
      [] req.endpoint = "market/kline" -> <<req.params.start, req.params.end>>
      [] req.endpoint = "public/get-candlestick" -> <<req.params.start_ts, req.params.end_ts>>
      [] req.endpoint = "markets/{symbol}/candlesticks" ->
           <<req.params.start_time, req.params.end_time>>
      [] req.endpoint \in {"candles", "market/kline/history"} -> <<req.params.from, req.params.to>>
      [] req.endpoint \in {"klines", "spot/market/candles"} ->
           <<req.params.startTime, req.params.endTime>>

\* the number a timestamp cell holds, sent as a number or as a digit string
CellNumber(cell) == IF cell.t = "num" THEN cell.n ELSE DigitsValue(cell.s)

\* the timestamp the i-th row of the received response carries
ReceivedTimestamp(i) ==
    CASE call.adapter = "MercadoBitcoinExchange" -> CellNumber(response.body.f.t.xs[i])
      [] call.adapter = "CryptoComExchange" -> CellNumber(ReceivedRows.v[i].f.t)
      [] call.adapter = "NovadaxExchange" -> CellNumber(ReceivedRows.v[i].f.score)
      [] OTHER -> CellNumber(ReceivedRows.v[i].xs[1])

C26_OKXReversedRange ==
    (InGetCandles /\ call.adapter = "OKXExchange") =>
        \A i \in 1..Len(requests) :
            /\ requests[i].params.after = call.end_date \div 1000
            /\ requests[i].params.before = call.start_date \div 1000
            /\ requests[i].params.instId = call.symbol
            /\ IsKey("OKXExchange", call.timeframe)
            /\ requests[i].params.bar = TableLookup("OKXExchange", call.timeframe)
            /\ call.timeframe = "1h" => requests[i].params.bar = "1H"

C26_Witness ==
    /\ InGetCandles /\ call.adapter = "OKXExchange"
    /\ call.symbol = <<"B","T","C","-","B","R","L">> /\ call.timeframe = "1h"
    /\ call.start_date = 1500500 /\ call.end_date = 3600000
    /\ Len(requests) = 1
    /\ requests[1].params.after = 3600 /\ requests[1].params.before = 1500
    /\ requests[1].params.instId = <<"B","T","C","-","B","R","L">>
    /\ requests[1].params.bar = "1H"

InConvertSymbol == call.op = "_convert_symbol"

IsHyphen(c) == c = "-"

\* s without its hyphens
Hyphenless(s) == SelectSeq(s, LAMBDA c : ~IsHyphen(c))

\* s with an underscore in the place of every hyphen
Underscored(s) == [i \in 1..Len(s) |-> IF IsHyphen(s[i]) THEN "_" ELSE s[i]]

EntrySymbol(j) == ReceivedEntries[j].f.symbol.s

\* the positions of the catalog entries that end with BRL and are TRADING
TradingBRL ==
    {j \in 1..Len(ReceivedEntries) :
        /\ endswith(EntrySymbol(j), BRL)
        /\ ReceivedEntries[j].f.status.s = <<"T","R","A","D","I","N","G">>}

\* the symbol with one hyphen put before its trailing BRL
HyphenBeforeQuote(s) == SubSeq(s, 1, Len(s) - Len(BRL)) \o <<"-">> \o BRL

\* C30: a successful Binance get_supported_pairs keeps exactly the catalog
\* symbols that end with BRL and have status TRADING and returns each of them
\* as BASE-BRL, with exactly one hyphen, placed before the trailing BRL,
\* whatever the base asset, one whose name contains BRL included.
C30_BinanceOneHyphenBeforeBRL ==
    (InGetSupportedPairs /\ call.adapter = "BinanceExchange"
        /\ response.kind = "body" /\ result.ok) =>
        /\ Len(result.v) = Cardinality(TradingBRL)
        /\ \A j \in TradingBRL :
              Count(result.v, HyphenBeforeQuote(EntrySymbol(j))) =
                  Cardinality({k \in TradingBRL : EntrySymbol(k) = EntrySymbol(j)})
        /\ \A i \in 1..Len(result.v) : Count(result.v[i], "-") = 1

InStoreCandles == call.op = "store_candles"
InStoreMultipleExchanges == call.op = "store_multiple_exchanges"

\* the key store_candles computes for the call in progress
CallKey == _get_s3_key(call.df, call.exchange, call.symbol, partition_by_day)

\* the objects a bucket holds at a key
ObjectsAt(objects, key) == {o \in objects : o.Key = key}

\* the bucket held an object at the computed key when the call began
ExistedBefore == CallKey.ok /\ ObjectsAt(call.before, CallKey.v) # {}

\* the call in progress has issued the S3 call
Issued(method) == \E i \in 1..Len(requests) : requests[i].method = method

\* the object an upload of the call's frame leaves at the computed key
Uploaded == [Key |-> CallKey.v, Body |-> [columns |-> call.df.columns, rows |-> call.df.rows]]

\* C23: store_candles refuses to overwrite: with overwrite false and an object
\* at the computed key it returns False, issues no put_object and leaves the
\* object as it was; with overwrite true it makes no existence check and
\* writes the object.
C23_RefusesToOverwrite ==
    InStoreCandles =>
        /\ (ExistedBefore /\ ~call.overwrite) =>
               /\ result = Ok(FALSE)
               /\ ~Issued("put_object")
               /\ ObjectsAt(bucket, CallKey.v) = ObjectsAt(call.before, CallKey.v)
        /\ call.overwrite =>
               /\ ~Issued("head_object")
               /\ (CallKey.ok /\ response.answers.parquet = "ok"
                      /\ response.answers.put = "ok") =>
                      /\ result = Ok(TRUE)
                      /\ ObjectsAt(bucket, CallKey.v) = {Uploaded}

\* head_object raised a ClientError: S3 refused the caller, or answered that
\* the object is not there
ProbeGotClientError ==
    \/ response.answers.head = "denied"
    \/ response.answers.head = "answer" /\ ~ExistedBefore

C29_OneResultPerExchange ==
    InStoreMultipleExchanges =>
        /\ result.ok
        /\ Len(result.v) = Len(call.dfs)
        /\ \A i \in 1..Len(call.dfs) :
              /\ result.v[i][1] = call.dfs[i][1]
              /\ result.v[i][2] \in BOOLEAN
              /\ result.v[i][2] =
                     store_candles(call.dfs[i][2], call.dfs[i][1], call.symbol,
                                   call.overwrite, response.answers[i], call.before,
                                   partition_by_day).out.v

\* the store for the first exchange failed, the one for the second succeeded
C29_Witness ==
    /\ InStoreMultipleExchanges
    /\ Len(call.dfs) = 2 /\ Len(result.v) = 2
    /\ result.v[1] = <<call.dfs[1][1], FALSE>>
    /\ result.v[2] = <<call.dfs[2][1], TRUE>>
    /\ \E o \in bucket : o.Key[Len(o.Key) - 3] = call.dfs[2][1]

====
